---- MODULE Spec2Model ----
(***************************************************************************)
(* Scene-graph intersection and recursive shading engine of the ray        *)
(* tracer: object tree (leaves, groups, CSG), bounding-box pruning, hit    *)
(* selection, refractive-index bookkeeping and the depth-bounded colour    *)
(* recursion.                                                              *)
(*                                                                         *)
(* Numbers.  An f64 is modelled as a fixed-point integer counted in steps  *)
(* of EPSILON: the value 1.0 is One steps.  The three magnitudes the code  *)
(* tells apart keep their order, EPSILON < approx_equal's tolerance < 1.0. *)
(* The IEEE specials are kept: INFINITY, NEG_INFINITY and NaN are three    *)
(* reserved integers and every arithmetic operator below treats them as    *)
(* f64 arithmetic does (inf * 0 = NaN, inf - inf = NaN, comparisons with   *)
(* NaN are false, partial_cmp with NaN is None).  Signed zeros are not     *)
(* distinguished.                                                          *)
(***************************************************************************)
EXTENDS Integers, Sequences, FiniteSets, TLC

EPSILON == 1
One == 20
Tol == 2
INFINITY == 1000000
NEG_INFINITY == 0 - INFINITY
NaN == 2000000

(***************************************************************************)
(* Operands and let bindings are evaluated once, before the body that uses *)
(* them, as Rust evaluates them: Let1(v, B) is B applied to the value of   *)
(* v.  SeqN builds a sequence of n values.                                 *)
(***************************************************************************)
Let1(v, B(_)) == CHOOSE r \in {B(x) : x \in {v}} : TRUE
Let2(v, w, B(_, _)) == CHOOSE r \in {B(x, y) : x \in {v}, y \in {w}} : TRUE
Let3(u, v, w, B(_, _, _)) ==
    CHOOSE r \in {B(x, y, z) : x \in {u}, y \in {v}, z \in {w}} : TRUE
Let4(t, u, v, w, B(_, _, _, _)) ==
    CHOOSE r \in {B(a, x, y, z) : a \in {t}, x \in {u}, y \in {v}, z \in {w}} : TRUE

SeqN(n, F(_)) ==
    CASE n = 0 -> <<>>
      [] n = 1 -> <<F(1)>>
      [] n = 2 -> <<F(1), F(2)>>
      [] n = 3 -> <<F(1), F(2), F(3)>>
      [] n = 4 -> <<F(1), F(2), F(3), F(4)>>

Num(k) == k * One

IsNaN(a) == a = NaN
IsInf(a) == a = INFINITY \/ a = NEG_INFINITY
Sgn(a) == IF a > 0 THEN 1 ELSE IF a < 0 THEN 0 - 1 ELSE 0
Abs(a) == IF a < 0 THEN 0 - a ELSE a

FNeg(a0) == Let1(a0, LAMBDA a : IF IsNaN(a) THEN NaN ELSE 0 - a)

FAbs(a0) == Let1(a0, LAMBDA a : IF IsNaN(a) THEN NaN ELSE Abs(a))

FAdd(a0, b0) ==
    Let2(a0, b0, LAMBDA a, b :
        IF IsNaN(a) \/ IsNaN(b) THEN NaN
        ELSE IF IsInf(a) THEN (IF IsInf(b) /\ b # a THEN NaN ELSE a)
        ELSE IF IsInf(b) THEN b
        ELSE a + b)

FSub(a, b) == FAdd(a, FNeg(b))

FMul(a0, b0) ==
    Let2(a0, b0, LAMBDA a, b :
        IF IsNaN(a) \/ IsNaN(b) THEN NaN
        ELSE IF IsInf(a) \/ IsInf(b)
             THEN (IF a = 0 \/ b = 0 THEN NaN
                   ELSE IF Sgn(a) * Sgn(b) > 0 THEN INFINITY ELSE NEG_INFINITY)
        ELSE Sgn(a) * Sgn(b) * ((Abs(a) * Abs(b)) \div One))

FDiv(a0, b0) ==
    Let2(a0, b0, LAMBDA a, b :
        IF IsNaN(a) \/ IsNaN(b) THEN NaN
        ELSE IF IsInf(a)
             THEN (IF IsInf(b) THEN NaN
                   ELSE IF Sgn(a) * (IF b < 0 THEN 0 - 1 ELSE 1) > 0
                        THEN INFINITY ELSE NEG_INFINITY)
        ELSE IF IsInf(b) THEN 0
        ELSE IF b = 0
             THEN (IF a = 0 THEN NaN
                   ELSE IF a > 0 THEN INFINITY ELSE NEG_INFINITY)
        ELSE Sgn(a) * Sgn(b) * ((Abs(a) * One) \div Abs(b)))

FLt(a0, b0) == Let2(a0, b0, LAMBDA a, b : ~IsNaN(a) /\ ~IsNaN(b) /\ a < b)
FGt(a0, b0) == Let2(a0, b0, LAMBDA a, b : ~IsNaN(a) /\ ~IsNaN(b) /\ a > b)
FLe(a0, b0) == Let2(a0, b0, LAMBDA a, b : ~IsNaN(a) /\ ~IsNaN(b) /\ a <= b)
FGe(a0, b0) == Let2(a0, b0, LAMBDA a, b : ~IsNaN(a) /\ ~IsNaN(b) /\ a >= b)

\* f64::min / f64::max: a NaN operand is ignored
FMin(a0, b0) ==
    Let2(a0, b0, LAMBDA a, b :
        IF IsNaN(a) THEN b ELSE IF IsNaN(b) THEN a ELSE IF a < b THEN a ELSE b)
FMax(a0, b0) ==
    Let2(a0, b0, LAMBDA a, b :
        IF IsNaN(a) THEN b ELSE IF IsNaN(b) THEN a ELSE IF a > b THEN a ELSE b)

\* f64::partial_cmp: "None" when an operand is NaN
partial_cmp(a0, b0) ==
    Let2(a0, b0, LAMBDA a, b :
        IF IsNaN(a) \/ IsNaN(b) THEN "None"
        ELSE IF a < b THEN "Less" ELSE IF a > b THEN "Greater" ELSE "Equal")

ISqrt(n0) ==
    Let1(n0, LAMBDA n : CHOOSE r \in 0..(n + 1) : r * r <= n /\ (r + 1) * (r + 1) > n)

FSqrt(a0) ==
    Let1(a0, LAMBDA a :
        IF IsNaN(a) \/ a < 0 THEN NaN
        ELSE IF a = INFINITY THEN INFINITY
        ELSE ISqrt(a * One))

approx_equal(a, b) == FLt(FAbs(FSub(a, b)), Tol)

(***************************************************************************)
(* Tuple: homogeneous point / vector                                       *)
(***************************************************************************)
Tuple_new(x, y, z, w) == [x |-> x, y |-> y, z |-> z, w |-> w]
Tuple_point(x, y, z) == Tuple_new(x, y, z, One)
Tuple_vector(x, y, z) == Tuple_new(x, y, z, 0)

Tuple_add(a0, b0) ==
    Let2(a0, b0, LAMBDA a, b :
        Tuple_new(FAdd(a.x, b.x), FAdd(a.y, b.y), FAdd(a.z, b.z), FAdd(a.w, b.w)))
Tuple_sub(a0, b0) ==
    Let2(a0, b0, LAMBDA a, b :
        Tuple_new(FSub(a.x, b.x), FSub(a.y, b.y), FSub(a.z, b.z), FSub(a.w, b.w)))
Tuple_neg(a0) ==
    Let1(a0, LAMBDA a : Tuple_new(FNeg(a.x), FNeg(a.y), FNeg(a.z), FNeg(a.w)))
Tuple_mul(a0, s0) ==
    Let2(a0, s0, LAMBDA a, s :
        Tuple_new(FMul(a.x, s), FMul(a.y, s), FMul(a.z, s), FMul(a.w, s)))
Tuple_dot(a0, b0) ==
    Let2(a0, b0, LAMBDA a, b :
        FAdd(FAdd(FAdd(FMul(a.x, b.x), FMul(a.y, b.y)), FMul(a.z, b.z)), FMul(a.w, b.w)))
Tuple_magnitude_squared(a0) == Let1(a0, LAMBDA a : Tuple_dot(a, a))
Tuple_magnitude(a0) ==
    Let1(a0, LAMBDA a : FSqrt(FAdd(FAdd(FMul(a.x, a.x), FMul(a.y, a.y)), FMul(a.z, a.z))))
Tuple_div(a, s) == Tuple_mul(a, FDiv(One, s))
Tuple_normalize(a0) == Let1(a0, LAMBDA a : Tuple_div(a, Tuple_magnitude(a)))
Tuple_reflect(a0, normal0) ==
    Let2(a0, normal0, LAMBDA a, normal :
        Tuple_sub(a, Tuple_mul(Tuple_mul(normal, Num(2)), Tuple_dot(a, normal))))
Tuple_min(a0, b0) ==
    Let2(a0, b0, LAMBDA a, b :
        Tuple_new(FMin(a.x, b.x), FMin(a.y, b.y), FMin(a.z, b.z), FMin(a.w, b.w)))
Tuple_max(a0, b0) ==
    Let2(a0, b0, LAMBDA a, b :
        Tuple_new(FMax(a.x, b.x), FMax(a.y, b.y), FMax(a.z, b.z), FMax(a.w, b.w)))

(***************************************************************************)
(* Matrix4: a sequence of four rows of four numbers                        *)
(***************************************************************************)
Matrix4_identity ==
    << <<One, 0, 0, 0>>, <<0, One, 0, 0>>, <<0, 0, One, 0>>, <<0, 0, 0, One>> >>

Matrix4_translation(x, y, z) ==
    << <<One, 0, 0, x>>, <<0, One, 0, y>>, <<0, 0, One, z>>, <<0, 0, 0, One>> >>

Matrix4_scaling(x, y, z) ==
    << <<x, 0, 0, 0>>, <<0, y, 0, 0>>, <<0, 0, z, 0>>, <<0, 0, 0, One>> >>

Matrix4_transpose(m0) ==
    Let1(m0, LAMBDA m : SeqN(4, LAMBDA r : SeqN(4, LAMBDA c : m[c][r])))

\* result starts at 0. and accumulates self[row][k] * rhs[k][col] for k = 0..3
Matrix4_mul(a0, b0) ==
    Let2(a0, b0, LAMBDA a, b :
        SeqN(4, LAMBDA r : SeqN(4, LAMBDA c :
            FAdd(FAdd(FAdd(FAdd(0, FMul(a[r][1], b[1][c])), FMul(a[r][2], b[2][c])),
                      FMul(a[r][3], b[3][c])), FMul(a[r][4], b[4][c])))))

row_to_tuple(row) == Tuple_new(row[1], row[2], row[3], row[4])

Matrix4_mul_tuple(m0, t0) ==
    Let2(m0, t0, LAMBDA m, t :
        Tuple_new(Tuple_dot(row_to_tuple(m[1]), t), Tuple_dot(row_to_tuple(m[2]), t),
                  Tuple_dot(row_to_tuple(m[3]), t), Tuple_dot(row_to_tuple(m[4]), t)))

Matrix4_eq(a0, b0) ==
    Let2(a0, b0, LAMBDA a, b :
        \A r \in 1..4 : \A c \in 1..4 : approx_equal(a[r][c], b[r][c]))

\* submatrix of an n x n matrix: row rd and column cd deleted
Submatrix(m0, n, rd, cd) ==
    Let1(m0, LAMBDA m :
        SeqN(n - 1, LAMBDA r : SeqN(n - 1, LAMBDA c :
            m[IF r < rd THEN r ELSE r + 1][IF c < cd THEN c ELSE c + 1])))

CofactorSign(rd, cd) ==
    (IF (rd - 1) % 2 = 0 THEN 1 ELSE 0 - 1) * (IF (cd - 1) % 2 = 0 THEN 1 ELSE 0 - 1)

Matrix2_determinant(m0) ==
    Let1(m0, LAMBDA m : FSub(FMul(m[1][1], m[2][2]), FMul(m[1][2], m[2][1])))

Matrix3_cofactor(m, rd, cd) ==
    FMul(Num(CofactorSign(rd, cd)), Matrix2_determinant(Submatrix(m, 3, rd, cd)))

Matrix3_determinant(m0) ==
    Let1(m0, LAMBDA m :
        FAdd(FAdd(FMul(m[1][1], Matrix3_cofactor(m, 1, 1)),
                  FMul(m[1][2], Matrix3_cofactor(m, 1, 2))),
             FMul(m[1][3], Matrix3_cofactor(m, 1, 3))))

Matrix4_cofactor(m, rd, cd) ==
    FMul(Num(CofactorSign(rd, cd)), Matrix3_determinant(Submatrix(m, 4, rd, cd)))

Matrix4_determinant(m0) ==
    Let1(m0, LAMBDA m :
        FAdd(FAdd(FAdd(FMul(m[1][1], Matrix4_cofactor(m, 1, 1)),
                       FMul(m[1][2], Matrix4_cofactor(m, 1, 2))),
                  FMul(m[1][3], Matrix4_cofactor(m, 1, 3))),
             FMul(m[1][4], Matrix4_cofactor(m, 1, 4))))

\* a singular matrix is given the identity for its inverse
Matrix4_inverse_lenient(m0) ==
    Let1(m0, LAMBDA m : Let1(Matrix4_determinant(m), LAMBDA det :
        [some |-> TRUE,
         val |-> IF approx_equal(det, 0) THEN Matrix4_identity
                 ELSE SeqN(4, LAMBDA r : SeqN(4, LAMBDA c :
                          FDiv(Matrix4_cofactor(m, c, r), det)))]))

\* Option<Matrix4>: None when the determinant is approximately zero
Matrix4_inverse(m0) ==
    Let1(m0, LAMBDA m : Let1(Matrix4_determinant(m), LAMBDA det :
        IF approx_equal(det, 0)
        THEN [some |-> FALSE, val |-> Matrix4_identity]
        ELSE [some |-> TRUE,
              val |-> SeqN(4, LAMBDA r : SeqN(4, LAMBDA c :
                          FDiv(Matrix4_cofactor(m, c, r), det)))]))

(***************************************************************************)
(* Results of operations that can panic (unwrap on None, unreachable!)     *)
(***************************************************************************)
Ok(v) == [ok |-> TRUE, val |-> v]
Panic == [ok |-> FALSE, val |-> <<>>]

\* both operands must be vectors: assert!(self.is_vector())
Tuple_cross(a0, b0) ==
    Let2(a0, b0, LAMBDA a, b :
        IF approx_equal(a.w, 0) /\ approx_equal(b.w, 0)
        THEN Ok(Tuple_vector(FSub(FMul(a.y, b.z), FMul(a.z, b.y)),
                             FSub(FMul(a.z, b.x), FMul(a.x, b.z)),
                             FSub(FMul(a.x, b.y), FMul(a.y, b.x))))
        ELSE Panic)

(***************************************************************************)
(* Color, Material                                                         *)
(***************************************************************************)
Color_new(r, g, b) == [red |-> r, green |-> g, blue |-> b]
Color_black == Color_new(0, 0, 0)
Color_white == Color_new(One, One, One)
Color_add(a0, b0) ==
    Let2(a0, b0, LAMBDA a, b :
        Color_new(FAdd(a.red, b.red), FAdd(a.green, b.green), FAdd(a.blue, b.blue)))
Color_mul(a0, s0) ==
    Let2(a0, s0, LAMBDA a, s : Color_new(FMul(a.red, s), FMul(a.green, s), FMul(a.blue, s)))
Color_hadamard(a0, b0) ==
    Let2(a0, b0, LAMBDA a, b :
        Color_new(FMul(a.red, b.red), FMul(a.green, b.green), FMul(a.blue, b.blue)))
Color_eq(a0, b0) ==
    Let2(a0, b0, LAMBDA a, b :
        approx_equal(a.red, b.red) /\ approx_equal(a.green, b.green)
            /\ approx_equal(a.blue, b.blue))

\* ambient 0.1, diffuse 0.9, specular 0.9, shininess 200
Material_new ==
    [color |-> Color_white, ambient |-> One \div 10, diffuse |-> (9 * One) \div 10,
     specular |-> (9 * One) \div 10, shininess |-> Num(200), reflective |-> 0,
     pattern |-> "None", transparency |-> 0, refractive_index |-> One]

Material_eq(a0, b0) ==
    Let2(a0, b0, LAMBDA a, b :
        /\ Color_eq(a.color, b.color)
        /\ approx_equal(a.ambient, b.ambient)
        /\ approx_equal(a.diffuse, b.diffuse)
        /\ approx_equal(a.specular, b.specular)
        /\ approx_equal(a.shininess, b.shininess))

(***************************************************************************)
(* Object tree                                                             *)
(***************************************************************************)
Sphere == [kind |-> "Sphere"]
Plane == [kind |-> "Plane"]
Cube == [kind |-> "Cube"]
Triangle_new(p1, p2, p3) == [p1 |-> p1, p2 |-> p2, p3 |-> p3, kind |-> [smooth |-> FALSE]]

Triangle_smooth(p1, p2, p3, n1, n2, n3) ==
    [p1 |-> p1, p2 |-> p2, p3 |-> p3,
     kind |-> [smooth |-> TRUE, n1 |-> n1, n2 |-> n2, n3 |-> n3]]

Shape_Triangle(triangle) == [kind |-> "Triangle", triangle |-> triangle]
Csg_new(op, left, right) == [kind |-> "Csg", op |-> op, left |-> left, right |-> right]

Object_new(shape) ==
    [transform |-> Matrix4_identity, node |-> "Shape", material |-> Material_new, shape |-> shape]
Object_group(objects) ==
    [transform |-> Matrix4_identity, node |-> "Group", children |-> objects]
Object_sphere == Object_new(Sphere)
Object_plane == Object_new(Plane)
Object_cube == Object_new(Cube)
Object_union(left, right) == Object_new(Csg_new("Union", left, right))
Object_intersection(left, right) == Object_new(Csg_new("Intersection", left, right))
Object_difference(left, right) == Object_new(Csg_new("Difference", left, right))

IsGroup(o) == o.node = "Group"
IsCsg(o0) == Let1(o0, LAMBDA o : o.node = "Shape" /\ o.shape.kind = "Csg")
IsLeaf(o0) == Let1(o0, LAMBDA o : o.node = "Shape" /\ o.shape.kind # "Csg")

\* the value of xs.iter().map(F).collect()
MapSeq(xs0, F(_)) ==
    Let1(xs0, LAMBDA xs : SubSeq([j \in 1..Len(xs) |-> F(xs[j])], 1, Len(xs)))

\* #[derive(PartialEq)] on the unit variants
Shape_eq(a, b) == a = b

SimpleObject_from_object(o0) ==
    Let1(o0, LAMBDA o :
        IF o.node = "Shape"
        THEN [some |-> TRUE,
              val |-> [material |-> o.material, transform |-> o.transform, shape |-> o.shape]]
        ELSE [some |-> FALSE, val |-> <<>>])

\* #[derive(PartialEq)] on SimpleObject: material, transform, shape
SimpleObject_eq(a0, b0) ==
    Let2(a0, b0, LAMBDA a, b :
        /\ Material_eq(a.material, b.material)
        /\ Matrix4_eq(a.transform, b.transform)
        /\ Shape_eq(a.shape, b.shape))

RECURSIVE Object_includes(_, _)
Csg_includes(csg0, object0) ==
    Let2(csg0, object0, LAMBDA csg, object :
        Object_includes(csg.left, object) \/ Object_includes(csg.right, object))

Object_includes(o0, object0) ==
    Let2(o0, object0, LAMBDA o, object :
        IF IsGroup(o) THEN \E k \in 1..Len(o.children) : Object_includes(o.children[k], object)
        ELSE IF IsCsg(o) THEN Csg_includes(o.shape, object)
        ELSE SimpleObject_eq(SimpleObject_from_object(o).val, object))

RECURSIVE Object_set_material(_, _)
Object_set_material(o0, material0) ==
    Let2(o0, material0, LAMBDA o, material :
        IF o.node = "Shape" THEN [o EXCEPT !.material = material]
        ELSE [o EXCEPT !.children =
                MapSeq(o.children, LAMBDA child : Object_set_material(child, material))])

(***************************************************************************)
(* Bounding boxes                                                          *)
(***************************************************************************)
BoundingBox(min, max) == [min |-> min, max |-> max]

BoundingBox_points(bb0) ==
    Let1(bb0, LAMBDA bb :
        << Tuple_point(bb.min.x, bb.min.y, bb.min.z), Tuple_point(bb.min.x, bb.max.y, bb.min.z),
           Tuple_point(bb.min.x, bb.min.y, bb.max.z), Tuple_point(bb.min.x, bb.max.y, bb.max.z),
           Tuple_point(bb.max.x, bb.min.y, bb.min.z), Tuple_point(bb.max.x, bb.max.y, bb.min.z),
           Tuple_point(bb.max.x, bb.min.y, bb.max.z), Tuple_point(bb.max.x, bb.max.y, bb.max.z) >>)

RECURSIVE FromPointsLoop(_, _, _, _)
FromPointsLoop(points0, k0, min_point0, max_point0) ==
    Let4(points0, k0, min_point0, max_point0, LAMBDA points, k, min_point, max_point :
        IF k > Len(points) THEN BoundingBox(min_point, max_point)
        ELSE FromPointsLoop(points, k + 1, Tuple_min(min_point, points[k]),
                            Tuple_max(max_point, points[k])))

BoundingBox_from_points(points) ==
    FromPointsLoop(points, 1, Tuple_point(INFINITY, INFINITY, INFINITY),
                   Tuple_point(NEG_INFINITY, NEG_INFINITY, NEG_INFINITY))

BoundingBox_union(a0, b0) ==
    Let2(a0, b0, LAMBDA a, b :
        BoundingBox(
            Tuple_point(FMin(a.min.x, b.min.x), FMin(a.min.y, b.min.y), FMin(a.min.z, b.min.z)),
            Tuple_point(FMax(a.max.x, b.max.x), FMax(a.max.y, b.max.y), FMax(a.max.z, b.max.z))))

RECURSIVE Object_bounding_box(_)
RECURSIVE ReduceUnion(_, _, _)

Shape_bounding_box(shape0) ==
    Let1(shape0, LAMBDA shape :
        CASE shape.kind = "Sphere" ->
                Ok(BoundingBox(
                    Tuple_point(FNeg(One + EPSILON), FNeg(One + EPSILON), FNeg(One + EPSILON)),
                    Tuple_point(One + EPSILON, One + EPSILON, One + EPSILON)))
          [] shape.kind = "Cube" ->
                Ok(BoundingBox(Tuple_point(FNeg(One), FNeg(One), FNeg(One)),
                               Tuple_point(One, One, One)))
          [] shape.kind = "Plane" ->
                Ok(BoundingBox(Tuple_point(NEG_INFINITY, 0, NEG_INFINITY),
                               Tuple_point(INFINITY, 0, INFINITY)))
          [] shape.kind = "Triangle" ->
                Ok(BoundingBox_from_points(<<shape.triangle.p1, shape.triangle.p2,
                                             shape.triangle.p3>>))
          [] shape.kind = "Csg" ->
                Let2(Object_bounding_box(shape.left), Object_bounding_box(shape.right),
                     LAMBDA left, right :
                        IF left.ok /\ right.ok THEN Ok(BoundingBox_union(left.val, right.val))
                        ELSE Panic))

\* group.iter().map(bounding_box).reduce(union): acc is the box reduced so far
ReduceUnion(children0, k0, acc0) ==
    Let3(children0, k0, acc0, LAMBDA children, k, acc :
        IF k > Len(children) THEN Ok(acc)
        ELSE Let1(Object_bounding_box(children[k]), LAMBDA b :
                IF b.ok THEN ReduceUnion(children, k + 1, BoundingBox_union(acc, b.val))
                ELSE Panic))

\* the box of the node's own contents, before the node's transform
Object_inner_bounding_box(o0) ==
    Let1(o0, LAMBDA o :
        IF o.node = "Shape" THEN Shape_bounding_box(o.shape)
        ELSE IF Len(o.children) = 0 THEN Panic   \* reduce() is None, unwrap() panics
        ELSE Let1(Object_bounding_box(o.children[1]), LAMBDA first :
                IF first.ok THEN ReduceUnion(o.children, 2, first.val) ELSE Panic))

Object_bounding_box(o0) ==
    Let2(o0, Object_inner_bounding_box(o0), LAMBDA o, inner_bb :
        IF ~inner_bb.ok THEN Panic
        ELSE Ok(BoundingBox_from_points(
                    MapSeq(BoundingBox_points(inner_bb.val),
                           LAMBDA pt : Matrix4_mul_tuple(o.transform, pt)))))

(***************************************************************************)
(* Rays and primitives                                                     *)
(***************************************************************************)
Ray_new(origin, direction) == [origin |-> origin, direction |-> direction]
Ray_position(ray0, t0) ==
    Let2(ray0, t0, LAMBDA ray, t : Tuple_add(ray.origin, Tuple_mul(ray.direction, t)))
Ray_transform(ray0, matrix0) ==
    Let2(ray0, matrix0, LAMBDA ray, matrix :
        Ray_new(Matrix4_mul_tuple(matrix, ray.origin), Matrix4_mul_tuple(matrix, ray.direction)))

check_axis(min, max, origin0, direction0) ==
    Let4(FSub(min, origin0), FSub(max, origin0), origin0, direction0,
         LAMBDA t_min_numerator, t_max_numerator, origin, direction :
            Let2(IF FGe(FAbs(direction), EPSILON) THEN FDiv(t_min_numerator, direction)
                 ELSE FMul(t_min_numerator, INFINITY),
                 IF FGe(FAbs(direction), EPSILON) THEN FDiv(t_max_numerator, direction)
                 ELSE FMul(t_max_numerator, INFINITY),
                 LAMBDA t_min, t_max :
                    IF FGt(t_min, t_max) THEN <<t_max, t_min>> ELSE <<t_min, t_max>>))

\* max_by / min_by over three values with partial_cmp(..).unwrap():
\* the fold compares (a, b) and then (winner, c); a None comparison panics
CmpFails3(a, b0, c) ==
    Let1(b0, LAMBDA b : partial_cmp(a, b) = "None" \/ partial_cmp(b, c) = "None")
MaxBy3(a0, b0, c0) ==
    Let3(a0, b0, c0, LAMBDA a, b, c :
        Let1(IF partial_cmp(a, b) = "Greater" THEN a ELSE b, LAMBDA m :
            IF partial_cmp(m, c) = "Greater" THEN m ELSE c))
MinBy3(a0, b0, c0) ==
    Let3(a0, b0, c0, LAMBDA a, b, c :
        Let1(IF partial_cmp(a, b) = "Greater" THEN b ELSE a, LAMBDA m :
            IF partial_cmp(m, c) = "Greater" THEN c ELSE m))

cube_local_intersect(min0, max0, local_ray0) ==
    Let3(min0, max0, local_ray0, LAMBDA min, max, local_ray :
        Let3(check_axis(min.x, max.x, local_ray.origin.x, local_ray.direction.x),
             check_axis(min.y, max.y, local_ray.origin.y, local_ray.direction.y),
             check_axis(min.z, max.z, local_ray.origin.z, local_ray.direction.z),
             LAMBDA xt, yt, zt :
                IF CmpFails3(xt[1], yt[1], zt[1]) \/ CmpFails3(xt[2], yt[2], zt[2])
                THEN Panic
                ELSE Let2(MaxBy3(xt[1], yt[1], zt[1]), MinBy3(xt[2], yt[2], zt[2]),
                          LAMBDA t_min, t_max :
                            IF FGt(t_min, t_max) THEN Ok(<<>>) ELSE Ok(<<t_min, t_max>>))))

Cube_local_intersect(local_ray) ==
    cube_local_intersect(Tuple_point(FNeg(One), FNeg(One), FNeg(One)),
                         Tuple_point(One, One, One), local_ray)

BoundingBox_intersect(bb0, world_ray) ==
    Let1(bb0, LAMBDA bb :
        Let1(cube_local_intersect(bb.min, bb.max, world_ray), LAMBDA r :
            IF r.ok THEN Ok(Len(r.val) > 0) ELSE Panic))

Sphere_local_intersect(local_ray0) ==
    Let2(local_ray0, Tuple_sub(local_ray0.origin, Tuple_point(0, 0, 0)),
         LAMBDA local_ray, sphere_to_ray :
            Let3(Tuple_magnitude_squared(local_ray.direction),
                 FMul(Num(2), Tuple_dot(local_ray.direction, sphere_to_ray)),
                 FSub(Tuple_magnitude_squared(sphere_to_ray), One),
                 LAMBDA a, b, c :
                    Let1(FSub(FMul(b, b), FMul(FMul(Num(4), a), c)), LAMBDA discriminant :
                        IF FLt(discriminant, 0) THEN <<>>
                        ELSE << FDiv(FSub(FNeg(b), FSqrt(discriminant)), FMul(Num(2), a)),
                                FDiv(FAdd(FNeg(b), FSqrt(discriminant)), FMul(Num(2), a)) >>)))

Plane_local_intersect(local_ray0) ==
    Let1(local_ray0, LAMBDA local_ray :
        IF FLt(FAbs(local_ray.direction.y), EPSILON) THEN <<>>
        ELSE << FDiv(FNeg(local_ray.origin.y), local_ray.direction.y) >>)

JustT(ts) == MapSeq(ts, LAMBDA t : [t |-> t, uv |-> <<>>])

Triangle_edge1(triangle) == Tuple_sub(triangle.p2, triangle.p1)
Triangle_edge2(triangle) == Tuple_sub(triangle.p3, triangle.p1)

\* the UVTs of Triangle::local_intersect, each with its (u, v)
Triangle_local_intersect(triangle0, local_ray0) ==
    Let2(triangle0, local_ray0, LAMBDA triangle, local_ray :
        Let3(Tuple_cross(local_ray.direction, Triangle_edge2(triangle)),
             Tuple_sub(local_ray.origin, triangle.p1),
             Tuple_cross(Tuple_sub(local_ray.origin, triangle.p1), Triangle_edge1(triangle)),
             LAMBDA dir_cross_edge2, p1_to_origin, origin_cross_e1 :
                IF ~dir_cross_edge2.ok THEN Panic
                ELSE Let1(Tuple_dot(Triangle_edge1(triangle), dir_cross_edge2.val), LAMBDA det :
                    IF FLt(FAbs(det), EPSILON) THEN Ok(<<>>)
                    ELSE Let2(FDiv(One, det),
                              FMul(FDiv(One, det), Tuple_dot(p1_to_origin, dir_cross_edge2.val)),
                              LAMBDA f, u :
                        IF FLt(u, 0) \/ FGt(u, One) THEN Ok(<<>>)
                        ELSE IF ~origin_cross_e1.ok THEN Panic
                        ELSE Let1(FMul(f, Tuple_dot(local_ray.direction, origin_cross_e1.val)),
                                  LAMBDA v :
                            IF FLt(v, 0) \/ FGt(FAdd(u, v), One) THEN Ok(<<>>)
                            ELSE Ok(<<[t |-> FMul(f, Tuple_dot(Triangle_edge2(triangle),
                                                               origin_cross_e1.val)),
                                       uv |-> <<u, v>>]>>))))))

Shape_local_intersect(shape0, local_ray0) ==
    Let2(shape0, local_ray0, LAMBDA shape, local_ray :
        CASE shape.kind = "Sphere" -> Ok(JustT(Sphere_local_intersect(local_ray)))
          [] shape.kind = "Plane" -> Ok(JustT(Plane_local_intersect(local_ray)))
          [] shape.kind = "Cube" ->
                Let1(Cube_local_intersect(local_ray), LAMBDA r :
                    IF r.ok THEN Ok(JustT(r.val)) ELSE Panic)
          [] shape.kind = "Triangle" -> Triangle_local_intersect(shape.triangle, local_ray)
          [] shape.kind = "Csg" -> Panic)   \* unreachable!()

(***************************************************************************)
(* Intersections.  A hit record is the value {t, uv, object}; the field    *)
(* src is a history field the code does not have: the path (child indices, *)
(* 1 = left and 2 = right under a CSG node) from the intersected node to   *)
(* the leaf that produced the hit.  No modelled comparison reads it.       *)
(***************************************************************************)
\* (u, v) is never kept
Intersection_new_without_uv(t_or_uvt0, object) ==
    Let1(t_or_uvt0, LAMBDA t_or_uvt :
        [t |-> t_or_uvt.t, uv |-> <<>>, object |-> object, src |-> <<>>])

Intersection_new(t_or_uvt0, object) ==
    Let1(t_or_uvt0, LAMBDA t_or_uvt :
        [t |-> t_or_uvt.t, uv |-> t_or_uvt.uv, object |-> object, src |-> <<>>])

Intersection_eq(a0, b0) ==
    Let2(a0, b0, LAMBDA a, b :
        approx_equal(a.t, b.t) /\ SimpleObject_eq(a.object, b.object))

\* slice::sort_by(|i1, i2| i1.t.partial_cmp(&i2.t).unwrap()): stable; with two
\* or more elements every element is compared, so a NaN t panics
RECURSIVE InsertByT(_, _)
InsertByT(sorted0, i0) ==
    Let2(sorted0, i0, LAMBDA sorted, i :
        IF Len(sorted) = 0 THEN <<i>>
        ELSE IF partial_cmp(i.t, sorted[Len(sorted)].t) = "Less"
             THEN Append(InsertByT(SubSeq(sorted, 1, Len(sorted) - 1), i), sorted[Len(sorted)])
             ELSE Append(sorted, i))

RECURSIVE SortLoop(_, _, _)
SortLoop(xs0, k0, acc0) ==
    Let3(xs0, k0, acc0, LAMBDA xs, k, acc :
        IF k > Len(xs) THEN acc ELSE SortLoop(xs, k + 1, InsertByT(acc, xs[k])))

sort_by_t(xs0) ==
    Let1(xs0, LAMBDA xs :
        IF Len(xs) >= 2 /\ \E k \in 1..Len(xs) : IsNaN(xs[k].t) THEN Panic
        ELSE Ok(SortLoop(xs, 1, <<>>)))

\* Difference with the rule of Union for right hits
CsgOp_intersection_allowed_difference_slip(op, left_hit, inl, inr) ==
    CASE op = "Union" -> (left_hit /\ ~inr) \/ (~left_hit /\ ~inl)
      [] op = "Intersection" -> (left_hit /\ inr) \/ (~left_hit /\ inl)
      [] op = "Difference" -> (left_hit /\ ~inr) \/ (~left_hit /\ ~inl)

CsgOp_intersection_allowed(op, left_hit, inl, inr) ==
    CASE op = "Union" -> (left_hit /\ ~inr) \/ (~left_hit /\ ~inl)
      [] op = "Intersection" -> (left_hit /\ inr) \/ (~left_hit /\ inl)
      [] op = "Difference" -> (left_hit /\ ~inr) \/ (~left_hit /\ inl)

\* the flag is toggled only for an intersection that is kept
FilterIteration_toggle_if_kept(csg0, st0, i0) ==
    Let3(csg0, st0, i0, LAMBDA csg, st, i :
        Let1(Object_includes(csg.left, i.object), LAMBDA left_hit :
            Let1(CsgOp_intersection_allowed(csg.op, left_hit, st.inl, st.inr), LAMBDA kept :
                [inl |-> IF left_hit /\ kept THEN ~st.inl ELSE st.inl,
                 inr |-> IF ~left_hit /\ kept THEN ~st.inr ELSE st.inr,
                 result |-> IF kept THEN Append(st.result, i) ELSE st.result])))

\* one iteration of the loop of Csg::filter_intersections on intersection i;
\* st = [inl, inr, result]
FilterIteration(csg0, st0, i0) ==
    Let3(csg0, st0, i0, LAMBDA csg, st, i :
        Let1(Object_includes(csg.left, i.object), LAMBDA left_hit :
            [inl |-> IF left_hit THEN ~st.inl ELSE st.inl,
             inr |-> IF left_hit THEN st.inr ELSE ~st.inr,
             result |-> IF CsgOp_intersection_allowed(csg.op, left_hit, st.inl, st.inr)
                        THEN Append(st.result, i) ELSE st.result]))

RECURSIVE FilterLoop(_, _, _, _)
FilterLoop(csg0, intersections0, k0, st0) ==
    Let4(csg0, intersections0, k0, st0, LAMBDA csg, intersections, k, st :
        IF k > Len(intersections) THEN st
        ELSE FilterLoop(csg, intersections, k + 1, FilterIteration(csg, st, intersections[k])))

Csg_filter_intersections(csg, intersections) ==
    FilterLoop(csg, intersections, 1, [inl |-> FALSE, inr |-> FALSE, result |-> <<>>]).result

\* history only: prefix the path of every hit with child index k
Tag(xs, k) == MapSeq(xs, LAMBDA i : [i EXCEPT !.src = <<k>> \o @])

\* child transform before parent transform
Restamp_child_first(o0, xs) ==
    Let1(o0, LAMBDA o :
        MapSeq(xs, LAMBDA i : [i EXCEPT !.object.transform = Matrix4_mul(@, o.transform)]))

\* the hits of a CSG node are made to refer to the node itself
Restamp_as_node(o0, xs) ==
    Let1(o0, LAMBDA o :
        MapSeq(xs, LAMBDA i :
            IF IsCsg(o)
            THEN [i EXCEPT !.object = [material |-> o.material, transform |-> o.transform,
                                       shape |-> o.shape]]
            ELSE [i EXCEPT !.object.transform = Matrix4_mul(o.transform, @)]))

Restamp(o0, xs) ==
    Let1(o0, LAMBDA o :
        MapSeq(xs, LAMBDA i : [i EXCEPT !.object.transform = Matrix4_mul(o.transform, @)]))

\* prune = TRUE is Object::intersect; prune = FALSE is the same traversal
\* without the bounding-box test at any node
RECURSIVE IntersectWith(_, _, _)
RECURSIVE FlatMapChildren(_, _, _, _)

FlatMapChildren(children0, k0, local_ray0, prune) ==
    Let3(children0, k0, local_ray0, LAMBDA children, k, local_ray :
        IF k > Len(children) THEN Ok(<<>>)
        ELSE Let2(IntersectWith(children[k], local_ray, prune),
                  FlatMapChildren(children, k + 1, local_ray, prune),
                  LAMBDA head, tail :
                    IF head.ok /\ tail.ok THEN Ok(Tag(head.val, k) \o tail.val) ELSE Panic))

\* the xs handed to filter_intersections: both operands' hits, chained and sorted
Csg_merged(csg0, local_ray, prune) ==
    Let1(csg0, LAMBDA csg :
        Let1(FlatMapChildren(<<csg.left, csg.right>>, 1, local_ray, prune), LAMBDA hits :
            IF hits.ok THEN sort_by_t(hits.val) ELSE Panic))

Csg_local_intersect(csg0, local_ray, prune) ==
    Let2(csg0, Csg_merged(csg0, local_ray, prune), LAMBDA csg, xs :
        IF xs.ok THEN Ok(Csg_filter_intersections(csg, xs.val)) ELSE Panic)

Leaf_local_intersect(o0, local_ray) ==
    Let2(o0, Shape_local_intersect(o0.shape, local_ray), LAMBDA o, r :
        IF r.ok
        THEN Ok(MapSeq(r.val, LAMBDA t_or_uvt :
                    Intersection_new(t_or_uvt,
                        [material |-> o.material, transform |-> o.transform,
                         shape |-> o.shape])))
        ELSE Panic)

Object_local_intersect(o0, local_ray0, prune) ==
    Let2(o0, local_ray0, LAMBDA o, local_ray :
        IF IsCsg(o)
        THEN Let1(Csg_local_intersect(o.shape, local_ray, prune), LAMBDA r :
                IF r.ok THEN Ok(Restamp(o, r.val)) ELSE Panic)
        ELSE IF IsGroup(o)
        THEN Let1(FlatMapChildren(o.children, 1, local_ray, prune), LAMBDA r :
                IF r.ok THEN Ok(Restamp(o, r.val)) ELSE Panic)
        ELSE Leaf_local_intersect(o, local_ray))

\* bb.intersect(ray) of Object::intersect; no test is made when prune is FALSE
IntersectsBox(o, ray, prune) ==
    IF ~prune THEN Ok(TRUE)
    ELSE Let1(Object_bounding_box(o), LAMBDA bb :
            IF bb.ok THEN BoundingBox_intersect(bb.val, ray) ELSE Panic)

\* the transform is inverted before the bounding box is tested
IntersectWith_inverse_first(o0, ray0, prune) ==
    Let2(o0, ray0, LAMBDA o, ray :
        Let1(Matrix4_inverse(o.transform), LAMBDA inv :
            IF ~inv.some THEN Panic
            ELSE Let1(IntersectsBox(o, ray, prune), LAMBDA intersects_box :
                    IF ~intersects_box.ok THEN Panic
                    ELSE IF intersects_box.val
                         THEN Object_local_intersect(o, Ray_transform(ray, inv.val), prune)
                         ELSE Ok(<<>>))))

IntersectWith(o0, ray0, prune) ==
    Let2(o0, ray0, LAMBDA o, ray :
        Let1(IntersectsBox(o, ray, prune), LAMBDA intersects_box :
            IF ~intersects_box.ok THEN Panic
            ELSE IF intersects_box.val
                 THEN Let1(Matrix4_inverse(o.transform), LAMBDA inv :
                        IF inv.some
                        THEN Object_local_intersect(o, Ray_transform(ray, inv.val), prune)
                        ELSE Panic)
                 ELSE Ok(<<>>)))

Object_intersect(o, ray) == IntersectWith(o, ray, TRUE)

(***************************************************************************)
(* World::intersect, Intersection::hit and the refractive indices          *)
(***************************************************************************)
RECURSIVE FlatMapObjects(_, _, _)
FlatMapObjects(objects0, k0, ray0) ==
    Let3(objects0, k0, ray0, LAMBDA objects, k, ray :
        IF k > Len(objects) THEN Ok(<<>>)
        ELSE Let2(Object_intersect(objects[k], ray), FlatMapObjects(objects, k + 1, ray),
                  LAMBDA head, tail :
                    IF head.ok /\ tail.ok THEN Ok(Tag(head.val, k) \o tail.val) ELSE Panic))

\* the collected intersections are returned as they were chained
World_intersect_unsorted(objects, ray) == FlatMapObjects(objects, 1, ray)

World_intersect(objects, ray) ==
    Let1(FlatMapObjects(objects, 1, ray), LAMBDA intersections :
        IF intersections.ok THEN sort_by_t(intersections.val) ELSE Panic)

Some(v) == [some |-> TRUE, val |-> v]
None == [some |-> FALSE, val |-> <<>>]

\* the filter drops t = 0: |i| i.t > 0.
NonNegative_positive_only(i) == FGt(i.t, 0)

\* the closure of .filter(|i| i.t >= 0.)
NonNegative(i) == FGe(i.t, 0)

RECURSIVE FilterNonNegative(_, _)
FilterNonNegative(intersections0, k0) ==
    Let2(intersections0, k0, LAMBDA intersections, k :
        IF k > Len(intersections) THEN <<>>
        ELSE IF NonNegative(intersections[k])
             THEN <<intersections[k]>> \o FilterNonNegative(intersections, k + 1)
             ELSE FilterNonNegative(intersections, k + 1))

\* Iterator::min_by: the fold keeps the earlier element unless the later one
\* compares Less; the elements passed the filter, so no t is NaN
RECURSIVE MinByT(_, _, _)

\* of two equal elements the later one is kept
MinByStep_keeps_later(best0, x0) ==
    Let2(best0, x0, LAMBDA best, x : IF partial_cmp(best.t, x.t) = "Less" THEN best ELSE x)

\* one step of the fold of Iterator::min_by: the element kept of the minimum
\* so far and the next element
MinByStep(best0, x0) ==
    Let2(best0, x0, LAMBDA best, x : IF partial_cmp(best.t, x.t) = "Greater" THEN x ELSE best)

MinByT(xs0, k0, best0) ==
    Let3(xs0, k0, best0, LAMBDA xs, k, best :
        IF k > Len(xs) THEN best
        ELSE MinByT(xs, k + 1, MinByStep(best, xs[k])))

Intersection_hit(intersections) ==
    Let1(FilterNonNegative(intersections, 1), LAMBDA candidates :
        IF Len(candidates) = 0 THEN None
        ELSE Some(MinByT(candidates, 2, candidates[1])))

\* containers.iter().position(|o| *o == i.object): 0 stands for None
RECURSIVE Position(_, _, _)
Position(containers0, object0, k0) ==
    Let3(containers0, object0, k0, LAMBDA containers, object, k :
        IF k > Len(containers) THEN 0
        ELSE IF SimpleObject_eq(containers[k], object) THEN k
        ELSE Position(containers, object, k + 1))

RemoveAt(xs0, index0) ==
    Let2(xs0, index0, LAMBDA xs, index :
        SubSeq(xs, 1, index - 1) \o SubSeq(xs, index + 1, Len(xs)))

LastIndex(containers0) ==
    Let1(containers0, LAMBDA containers :
        IF Len(containers) > 0 THEN containers[Len(containers)].material.refractive_index
        ELSE One)

\* one iteration of the loop of compute_refractive_indices on intersection i;
\* st = [containers, n1, n2, broke]
RefractIteration(self, st0, i0) ==
    Let3(st0, i0, Intersection_eq(i0, self), LAMBDA st, i, is_hit :
        Let2(IF is_hit THEN LastIndex(st.containers) ELSE st.n1,
             Position(st.containers, i.object, 1),
             LAMBDA n1, position :
                Let1(IF position # 0 THEN RemoveAt(st.containers, position)
                     ELSE Append(st.containers, i.object),
                     LAMBDA containers :
                        [containers |-> containers,
                         n1 |-> n1,
                         n2 |-> IF is_hit THEN LastIndex(containers) ELSE st.n2,
                         broke |-> is_hit])))

RefractStart == [containers |-> <<>>, n1 |-> One, n2 |-> One, broke |-> FALSE]

RECURSIVE RefractLoop(_, _, _, _)
RefractLoop(self0, all_intersections0, k0, st0) ==
    Let4(self0, all_intersections0, k0, st0, LAMBDA self, all_intersections, k, st :
        IF k > Len(all_intersections) \/ st.broke THEN st
        ELSE RefractLoop(self, all_intersections, k + 1,
                         RefractIteration(self, st, all_intersections[k])))

compute_refractive_indices(self, all_intersections) ==
    Let1(RefractLoop(self, all_intersections, 1, RefractStart), LAMBDA st : <<st.n1, st.n2>>)

(***************************************************************************)
(* Shading: normals, prepare_computations, lighting, shadows, schlick      *)
(***************************************************************************)
Sphere_local_normal_at(local_point) == Tuple_sub(local_point, Tuple_point(0, 0, 0))

Plane_local_normal_at(local_point) == Tuple_vector(0, One, 0)

Cube_local_normal_at(local_point0) ==
    Let1(local_point0, LAMBDA local_point :
        Let3(FAbs(local_point.x), FAbs(local_point.y), FAbs(local_point.z),
             LAMBDA ax, ay, az :
                IF CmpFails3(ax, ay, az) THEN Panic
                ELSE Let1(MaxBy3(ax, ay, az), LAMBDA max_abs :
                        IF max_abs = ax THEN Ok(Tuple_vector(local_point.x, 0, 0))
                        ELSE IF max_abs = ay THEN Ok(Tuple_vector(0, local_point.y, 0))
                        ELSE Ok(Tuple_vector(0, 0, local_point.z)))))

Triangle_normal(triangle0) ==
    Let1(Tuple_cross(Triangle_edge2(triangle0), Triangle_edge1(triangle0)), LAMBDA crossed :
        IF crossed.ok THEN Ok(Tuple_normalize(crossed.val)) ELSE Panic)

\* uvt = <<u, v>>
Triangle_local_normal_at(triangle0, uvt0) ==
    Let2(triangle0, uvt0, LAMBDA triangle, uvt :
        IF ~triangle.kind.smooth THEN Triangle_normal(triangle)
        ELSE Ok(Tuple_normalize(
                Tuple_add(Tuple_add(Tuple_mul(triangle.kind.n2, uvt[1]),
                                    Tuple_mul(triangle.kind.n3, uvt[2])),
                          Tuple_mul(triangle.kind.n1, FSub(FSub(One, uvt[1]), uvt[2]))))))

Shape_local_normal_at(shape0, intersection, local_point) ==
    Let1(shape0, LAMBDA shape :
        CASE shape.kind = "Sphere" -> Ok(Sphere_local_normal_at(local_point))
          [] shape.kind = "Plane" -> Ok(Plane_local_normal_at(local_point))
          [] shape.kind = "Cube" -> Cube_local_normal_at(local_point)
          [] shape.kind = "Triangle" ->     \* intersection.uvt().unwrap()
                IF intersection.uv = <<>> THEN Panic
                ELSE Triangle_local_normal_at(shape.triangle, intersection.uv)
          [] shape.kind = "Csg" -> Panic)   \* unreachable!()

SimpleObject_normal_at(object0, intersection, world_point) ==
    Let2(object0, Matrix4_inverse(object0.transform), LAMBDA object, inverse_transform :
        IF ~inverse_transform.some THEN Panic
        ELSE Let1(Shape_local_normal_at(object.shape, intersection,
                        Matrix4_mul_tuple(inverse_transform.val, world_point)),
                  LAMBDA local_normal :
                    IF ~local_normal.ok THEN Panic
                    ELSE Ok(Tuple_normalize(
                            [Matrix4_mul_tuple(Matrix4_transpose(inverse_transform.val),
                                               local_normal.val) EXCEPT !.w = 0]))))

\* the normal is never turned towards the eye
Intersection_computed_never_inside(self, ray, all_intersections, point, eye_vector, tentative_normal) ==
    Let2(tentative_normal, compute_refractive_indices(self, all_intersections),
         LAMBDA normal_vector, n1n2 :
            [object |-> self.object,
             inside |-> FALSE,
             eye_vector |-> eye_vector,
             normal_vector |-> normal_vector,
             reflect_vector |-> Tuple_reflect(ray.direction, normal_vector),
             over_point |-> Tuple_add(point, Tuple_mul(normal_vector, EPSILON)),
             under_point |-> Tuple_sub(point, Tuple_mul(normal_vector, EPSILON)),
             n1 |-> n1n2[1],
             n2 |-> n1n2[2]])

\* the fields of ComputedIntersection once the normal is known
Intersection_computed(self, ray, all_intersections, point, eye_vector, tentative_normal) ==
    Let3(FLt(Tuple_dot(tentative_normal, eye_vector), 0),
         IF FLt(Tuple_dot(tentative_normal, eye_vector), 0) THEN Tuple_neg(tentative_normal)
         ELSE tentative_normal,
         compute_refractive_indices(self, all_intersections),
         LAMBDA inside, normal_vector, n1n2 :
            [object |-> self.object,
             inside |-> inside,
             eye_vector |-> eye_vector,
             normal_vector |-> normal_vector,
             reflect_vector |-> Tuple_reflect(ray.direction, normal_vector),
             over_point |-> Tuple_add(point, Tuple_mul(normal_vector, EPSILON)),
             under_point |-> Tuple_sub(point, Tuple_mul(normal_vector, EPSILON)),
             n1 |-> n1n2[1],
             n2 |-> n1n2[2]])

Intersection_prepare_computations(self0, ray0, all_intersections0) ==
    Let3(self0, ray0, all_intersections0, LAMBDA self, ray, all_intersections :
        Let2(Ray_position(ray, self.t), Tuple_neg(ray.direction), LAMBDA point, eye_vector :
            Let1(SimpleObject_normal_at(self.object, self, point), LAMBDA tentative_normal :
                IF ~tentative_normal.ok THEN Panic
                ELSE Ok(Intersection_computed(self, ray, all_intersections, point,
                                              eye_vector, tentative_normal.val)))))

\* f64::powi by repeated squaring; powf is only applied to whole exponents
\* here (shininess)
RECURSIVE FPowi(_, _)
FPowi(a0, n0) ==
    Let2(a0, n0, LAMBDA a, n :
        IF n = 0 THEN One
        ELSE IF n % 2 = 0 THEN Let1(FPowi(a, n \div 2), LAMBDA half : FMul(half, half))
        ELSE FMul(a, FPowi(a, n - 1)))

Light_point_light(position, intensity) == [position |-> position, intensity |-> intensity]

\* the diffuse and specular terms of Material::lighting
lighting_terms(material, light, effective_color, light_vector, eye_vector, normal_vector) ==
    Let2(Tuple_dot(light_vector, normal_vector),
         Tuple_dot(Tuple_reflect(Tuple_neg(light_vector), normal_vector), eye_vector),
         LAMBDA light_dot_normal, reflect_dot_eye :
            [diffuse |->
                IF FLt(light_dot_normal, 0) THEN Color_black
                ELSE Color_mul(Color_mul(effective_color, material.diffuse), light_dot_normal),
             specular |->
                IF FLt(light_dot_normal, 0) \/ FLe(reflect_dot_eye, 0) THEN Color_black
                ELSE Color_mul(Color_mul(light.intensity, material.specular),
                               FPowi(reflect_dot_eye, material.shininess \div One))])

material_lighting(material0, light0, point, eye_vector0, normal_vector0, in_shadow) ==
    Let4(material0, light0, eye_vector0, normal_vector0,
         LAMBDA material, light, eye_vector, normal_vector :
            Let2(Color_hadamard(material.color, light.intensity),
                 Tuple_normalize(Tuple_sub(light.position, point)),
                 LAMBDA effective_color, light_vector :
                    Let1(Color_mul(effective_color, material.ambient), LAMBDA ambient :
                        IF in_shadow THEN ambient
                        ELSE Let1(lighting_terms(material, light, effective_color,
                                                 light_vector, eye_vector, normal_vector),
                                  LAMBDA terms :
                                    Color_add(Color_add(ambient, terms.diffuse),
                                              terms.specular)))))

\* any hit in front of the point shadows it, however far
World_is_shadowed_by_any_hit(world0, point0, light0) ==
    Let3(world0, point0, Tuple_sub(light0.position, point0), LAMBDA world, point, vector :
        Let1(World_intersect(world.objects, Ray_new(point, Tuple_normalize(vector))),
             LAMBDA xs :
                IF ~xs.ok THEN Panic ELSE Ok(Intersection_hit(xs.val).some)))

World_is_shadowed(world0, point0, light0) ==
    Let3(world0, point0, Tuple_sub(light0.position, point0), LAMBDA world, point, vector :
        Let2(Tuple_magnitude(vector),
             World_intersect(world.objects, Ray_new(point, Tuple_normalize(vector))),
             LAMBDA distance, xs :
                IF ~xs.ok THEN Panic
                ELSE Let1(Intersection_hit(xs.val), LAMBDA hit :
                        Ok(IF hit.some THEN FLt(hit.val.t, distance) ELSE FALSE))))

\* the fold of shade_hit over self.lights, from Color::black()
RECURSIVE SurfaceFold(_, _, _, _)
SurfaceFold(world0, comps0, k0, acc0) ==
    Let4(world0, comps0, k0, acc0, LAMBDA world, comps, k, acc :
        IF k > Len(world.lights) THEN Ok(acc)
        ELSE Let2(world.lights[k], World_is_shadowed(world, comps.over_point, world.lights[k]),
                  LAMBDA light, in_shadow :
                    IF ~in_shadow.ok THEN Panic
                    ELSE SurfaceFold(world, comps, k + 1,
                            Color_add(acc, material_lighting(comps.object.material, light,
                                                comps.over_point, comps.eye_vector,
                                                comps.normal_vector, in_shadow.val)))))

surface_color(world, comps) == SurfaceFold(world, comps, 1, Color_black)

\* the tests of World::refracted_color and the refraction ray
sin2_t_of(comps0) ==
    Let1(comps0, LAMBDA comps :
        Let2(FDiv(comps.n1, comps.n2), Tuple_dot(comps.eye_vector, comps.normal_vector),
             LAMBDA n_ratio, cos_i :
                FMul(FPowi(n_ratio, 2), FSub(One, FPowi(cos_i, 2)))))

ComputedIntersection_schlick(comps0) ==
    Let1(comps0, LAMBDA comps :
        Let3(Tuple_dot(comps.eye_vector, comps.normal_vector),
             FDiv(comps.n1, comps.n2),
             FPowi(FDiv(FSub(comps.n1, comps.n2), FAdd(comps.n1, comps.n2)), 2),
             LAMBDA cos_i, n, r0 :
                Let1(FMul(FPowi(n, 2), FSub(One, FPowi(cos_i, 2))), LAMBDA sin2_t :
                    IF FGt(comps.n1, comps.n2) /\ FGt(sin2_t, One) THEN One
                    ELSE Let1(IF FGt(comps.n1, comps.n2) THEN FSqrt(FSub(One, sin2_t))
                              ELSE cos_i,
                              LAMBDA cos :
                                FAdd(r0, FMul(FSub(One, r0), FPowi(FSub(One, cos), 5)))))))

refract_ray(comps0) ==
    Let1(comps0, LAMBDA comps :
        Let3(FDiv(comps.n1, comps.n2), Tuple_dot(comps.eye_vector, comps.normal_vector),
             FSqrt(FSub(One, sin2_t_of(comps))),
             LAMBDA n_ratio, cos_i, cos_t :
                Ray_new(comps.under_point,
                        Tuple_sub(Tuple_mul(comps.normal_vector,
                                            FSub(FMul(n_ratio, cos_i), cos_t)),
                                  Tuple_mul(comps.eye_vector, n_ratio)))))

\* the reflection ray starts below the surface
reflect_ray_from_under_point(comps0) ==
    Let1(comps0, LAMBDA comps : Ray_new(comps.under_point, comps.reflect_vector))

reflect_ray(comps0) == Let1(comps0, LAMBDA comps : Ray_new(comps.over_point, comps.reflect_vector))

\* remaining_depth <= 0 leaves depth 0 to recurse: remaining_depth < 0
no_depth_remaining_below_zero(remaining_depth) == remaining_depth < 0

\* World::reflected_color: let no_depth_remaining = remaining_depth <= 0
no_depth_remaining(remaining_depth) == remaining_depth <= 0

\* the nested call is given the caller's depth
nested_depth_undiminished(remaining_depth) == remaining_depth

\* the depth handed to the nested color_at_with_depth: remaining_depth - 1
nested_depth(remaining_depth) == remaining_depth - 1

(***************************************************************************)
(* Tree navigation used to state properties: the node at a path, the       *)
(* product of the transforms along a path (parent before child) and the    *)
(* paths of all leaves                                                     *)
(***************************************************************************)
ChildAt(o, k) ==
    IF IsGroup(o) THEN o.children[k] ELSE IF k = 1 THEN o.shape.left ELSE o.shape.right

RECURSIVE NodeAt(_, _)
NodeAt(o, path) == IF Len(path) = 0 THEN o ELSE NodeAt(ChildAt(o, Head(path)), Tail(path))

RECURSIVE PathProductFrom(_, _, _)
PathProductFrom(o, path, acc) ==
    IF Len(path) = 0 THEN acc
    ELSE LET child == ChildAt(o, Head(path))
         IN  PathProductFrom(child, Tail(path), Matrix4_mul(acc, child.transform))

PathProduct(o, path) == PathProductFrom(o, path, o.transform)

RECURSIVE LeafPaths(_)
LeafPaths(o) ==
    IF IsGroup(o)
    THEN UNION {{<<k>> \o p : p \in LeafPaths(o.children[k])} : k \in 1..Len(o.children)}
    ELSE IF IsCsg(o)
    THEN {<<1>> \o p : p \in LeafPaths(o.shape.left)}
         \cup {<<2>> \o p : p \in LeafPaths(o.shape.right)}
    ELSE {<<>>}

(***************************************************************************)
(* Inputs                                                                  *)
(***************************************************************************)
WithTransform(o, t) == [o EXCEPT !.transform = t]

GlassMaterial(index) == [Material_new EXCEPT !.transparency = One, !.refractive_index = index]
BrightMaterial == [Material_new EXCEPT !.ambient = One]

Materials == {BrightMaterial, GlassMaterial((3 * One) \div 2)}

\* the last one is singular
Transforms ==
    {Matrix4_identity, Matrix4_translation(0, 0, Num(1)), Matrix4_scaling(Num(2), Num(2), Num(2)),
     Matrix4_scaling(0, Num(1), Num(1))}

Ray_at(x, y, z, dx, dy, dz) ==
    Ray_new(Tuple_point(Num(x), Num(y), Num(z)), Tuple_vector(Num(dx), Num(dy), Num(dz)))

Rays ==
    {Ray_at(0, 0, 0 - 5, 0, 0, 1), Ray_at(5, 1, 0, 0, 0 - 1, 0), Ray_at(1, 0, 0 - 5, 0, 0, 1),
     Ray_at(0, 2, 0 - 5, 0, 0, 1), Ray_at(0, 0, 0, 0, 0, 1), Ray_at(5, 0, 0, 0 - 1, 0, 0)}

MovedSphere == WithTransform(Object_sphere, Matrix4_translation(0, 0, Num(1)))
MovedCubeGroup ==
    WithTransform(Object_group(<<Object_cube>>), Matrix4_translation(0, 0, Num(1)))

\* a flat triangle around the z axis in the plane z = 0, and a smooth one
Object_triangle ==
    Object_new(Shape_Triangle(Triangle_new(Tuple_point(0, Num(1), 0),
                                           Tuple_point(0 - Num(1), 0 - Num(1), 0),
                                           Tuple_point(Num(1), 0 - Num(1), 0))))

SmoothTriangle ==
    Object_new(Shape_Triangle(Triangle_smooth(Tuple_point(0, Num(1), 0),
                                              Tuple_point(0 - Num(1), 0 - Num(1), 0),
                                              Tuple_point(Num(1), 0 - Num(1), 0),
                                              Tuple_vector(0, Num(1), 0),
                                              Tuple_vector(0 - Num(1), 0, 0),
                                              Tuple_vector(Num(1), 0, 0))))

Scenes ==
    {Object_sphere, Object_cube, Object_plane, MovedSphere,
     Object_group(<<Object_sphere, WithTransform(Object_cube, Matrix4_translation(Num(3), 0, 0))>>),
     WithTransform(Object_group(<<MovedSphere>>), Matrix4_scaling(Num(2), Num(2), Num(2))),
     Object_group(<<Object_plane, Object_sphere>>),
     Object_union(Object_sphere, MovedSphere),
     Object_difference(Object_cube, MovedSphere),
     Object_intersection(Object_cube, MovedSphere),
     Object_union(MovedCubeGroup, Object_sphere),
     Object_union(Object_sphere, Object_sphere),
     Object_group(<<Object_difference(Object_sphere, MovedSphere), Object_plane>>),
     WithTransform(Object_group(<<Object_group(<<MovedSphere, Object_cube>>)>>),
                   Matrix4_scaling(Num(2), Num(2), Num(2))),
     Object_group(<<>>),
     Object_triangle,
     WithTransform(Object_group(<<Object_triangle, MovedSphere>>),
                   Matrix4_translation(0, 0, Num(1))),
     Object_difference(Object_sphere, SmoothTriangle)}

(***************************************************************************)
(* Inputs of Csg::filter_intersections: t-sorted hit records of the leaves *)
(* of the two operands, as the operands' intersect stamps them             *)
(***************************************************************************)
MaxHits == 4

FilterOperands ==
    { <<Object_sphere, Object_cube>>,
      <<Object_sphere, MovedSphere>>,
      <<MovedCubeGroup, Object_sphere>>,
      <<Object_sphere, Object_sphere>>,
      <<Object_group(<<Object_sphere, WithTransform(Object_cube, Matrix4_translation(Num(3), 0, 0))>>),
        Object_plane>> }

CsgOps == {"Union", "Intersection", "Difference"}

FilterCsgs == {Csg_new(op, lr[1], lr[2]) : op \in CsgOps, lr \in FilterOperands}

\* the hit record operand.intersect yields for the leaf at path (side, rest)
HitOf(csg, path, t) ==
    LET operand == IF Head(path) = 1 THEN csg.left ELSE csg.right
        leaf == NodeAt(operand, Tail(path))
    IN  [t |-> t, uv |-> <<>>,
         object |-> [material |-> leaf.material,
                     transform |-> PathProduct(operand, Tail(path)),
                     shape |-> leaf.shape],
         src |-> path]

HitSequences(csg) ==
    UNION { { [j \in 1..n |-> HitOf(csg, s[j], Num(j))] :
                s \in [1..n -> LeafPaths(Object_new(csg))] } : n \in 0..MaxHits }

(***************************************************************************)
(* Inputs of Intersection::hit and prepare_computations: three overlapping *)
(* glass spheres A (radius 2, index 1.5), B (z - 0.25, index 2.0) and      *)
(* C (z + 0.25, index 2.5), the ray of the test through all three, and     *)
(* short sequences of hits of A and B at times around 0                    *)
(***************************************************************************)
GlassSphere(transform, index) ==
    [WithTransform(Object_sphere, transform) EXCEPT !.material = GlassMaterial(index)]

GlassA == GlassSphere(Matrix4_scaling(Num(2), Num(2), Num(2)), (3 * One) \div 2)
GlassB == GlassSphere(Matrix4_translation(0, 0, 0 - (One \div 4)), Num(2))
GlassC == GlassSphere(Matrix4_translation(0, 0, One \div 4), (5 * One) \div 2)

GlassWorld == <<GlassA, GlassB, GlassC>>

\* the hit record World::intersect yields for top-level leaf number k
WorldHit(objects, k, t) ==
    [t |-> t, uv |-> <<>>, object |-> SimpleObject_from_object(objects[k]).val, src |-> <<k>>]

\* World::intersect of the three spheres with the ray from (0, 0, -4) along +z:
\* A at t = 2 and 6, B at 2.75 and 4.75, C at 3.25 and 5.25
ExampleRay == Ray_at(0, 0, 0 - 4, 0, 0, 1)
ExampleXs ==
    << WorldHit(GlassWorld, 1, Num(2)), WorldHit(GlassWorld, 2, (11 * One) \div 4),
       WorldHit(GlassWorld, 3, (13 * One) \div 4), WorldHit(GlassWorld, 2, (19 * One) \div 4),
       WorldHit(GlassWorld, 3, (21 * One) \div 4), WorldHit(GlassWorld, 1, Num(6)) >>

MaxXs == 3

HitTimes == {0 - One, 0 - EPSILON, 0, EPSILON, One}

HitInputs ==
    {ExampleXs} \cup
    UNION { [1..n -> {WorldHit(GlassWorld, k, t) : k \in {1, 2}, t \in HitTimes}] : n \in 0..MaxXs }

(***************************************************************************)
(* Worlds to shade: two facing mirrors with the light between them; a      *)
(* mirror above a pane that both reflects and transmits, over an opaque    *)
(* floor, with two lights; a glass sphere.  Rays run along the axes.       *)
(***************************************************************************)
DEFAULT_ALLOWED_DEPTH == 8

World_new(objects, lights) == [objects |-> objects, lights |-> lights]

MirrorMaterial == [Material_new EXCEPT !.reflective = One]
PaneMaterial ==
    [Material_new EXCEPT !.reflective = One \div 2, !.transparency = One \div 2,
                         !.refractive_index = (3 * One) \div 2]

PlaneAt(y, material) ==
    [WithTransform(Object_plane, Matrix4_translation(0, y, 0)) EXCEPT !.material = material]

MirrorWorld ==
    World_new(<<PlaneAt(0 - One, MirrorMaterial), PlaneAt(One, MirrorMaterial)>>,
              <<Light_point_light(Tuple_point(0, 0, 0), Color_white)>>)

PaneWorld ==
    World_new(<<PlaneAt(0 - One, PaneMaterial), PlaneAt(One, MirrorMaterial),
                PlaneAt(0 - Num(3), Material_new)>>,
              <<Light_point_light(Tuple_point(0, 0, 0), Color_white),
                Light_point_light(Tuple_point(0, 0 - Num(2), 0), Color_white)>>)

GlassSphereWorld ==
    World_new(<<GlassSphere(Matrix4_identity, (3 * One) \div 2)>>,
              <<Light_point_light(Tuple_point(0, 0, 0 - Num(10)), Color_white)>>)

\* the pane alone, and no light
DarkWorld == World_new(<<PlaneAt(0 - One, PaneMaterial)>>, <<>>)

ShadeWorlds == {MirrorWorld, PaneWorld, GlassSphereWorld, DarkWorld}

ShadeRays ==
    {Ray_at(0, 0, 0, 0, 1, 0), Ray_at(0, 0, 0, 0, 0 - 1, 0), Ray_at(0, 0, 0 - 5, 0, 0, 1),
     Ray_at(0, 0, 0 - 5, 1, 0, 0)}

\* the depths given to the public color_at_with_depth (an i32)
Depths == (0 - 1)..2

\* cap on the number of nested color_at_with_depth activations
MaxFrames == 10

(***************************************************************************)
(* Wavefront OBJ files: WavefrontObj::from_file_contents                   *)
(*                                                                         *)
(* A line is what split_once(" ") and the splitting of its rest give:      *)
(* split says whether the line has a space at all, node_type is the text   *)
(* before it; the rest of a "v" or "vn" line is its three parsed numbers,  *)
(* of a "g" line the name, of an "f" line one entry per vertex, each entry *)
(* the results of parse::<usize>().ok() on its '/'-separated parts.        *)
(***************************************************************************)
HashMap_new == [name \in {} |-> <<>>]

\* groups.entry(name).or_insert(vec![]).push(triangle)
HashMap_push(groups0, name0, triangle0) ==
    Let3(groups0, name0, triangle0, LAMBDA groups, name, triangle :
        [n \in (DOMAIN groups) \cup {name} |->
            IF n = name
            THEN Append(IF name \in DOMAIN groups THEN groups[name] ELSE <<>>, triangle)
            ELSE groups[n]])

\* vec[index] with a 0-based index
InRange(index, vec) == index >= 0 /\ index < Len(vec)

\* (vertex, texture, normal) of one entry of a face line, 0-based
FaceIndex(attr0) ==
    Let1(attr0, LAMBDA attr :
        IF Len(attr) = 0 \/ ~attr[1].some THEN Panic
        ELSE Ok([vertex |-> attr[1].val - 1,
                 texture |-> IF Len(attr) >= 2 /\ attr[2].some
                             THEN Some(attr[2].val - 1) ELSE None,
                 normal |-> IF Len(attr) >= 3 /\ attr[3].some
                            THEN Some(attr[3].val - 1) ELSE None]))

\* the corners the i-th window is kept with by a triangulation that walks
\* along the polygon instead of fanning out from its first vertex
Window_strip(indices, i) == <<indices[i], indices[i + 1], indices[i + 2]>>

\* indices.next() and the i-th of windows(2) over what is left
Window(indices, i) == <<indices[1], indices[i + 1], indices[i + 2]>>

WindowTriangle(vertices0, normals0, window0) ==
    Let3(vertices0, normals0, window0, LAMBDA vertices, normals, window :
        IF \A c \in 1..3 : window[c].normal.some
        THEN IF /\ \A c \in 1..3 : InRange(window[c].vertex, vertices)
                /\ \A c \in 1..3 : InRange(window[c].normal.val, normals)
             THEN Ok(Triangle_smooth(vertices[window[1].vertex + 1],
                                     vertices[window[2].vertex + 1],
                                     vertices[window[3].vertex + 1],
                                     normals[window[1].normal.val + 1],
                                     normals[window[2].normal.val + 1],
                                     normals[window[3].normal.val + 1]))
             ELSE Panic
        ELSE IF \A c \in 1..3 : InRange(window[c].vertex, vertices)
             THEN Ok(Triangle_new(vertices[window[1].vertex + 1],
                                  vertices[window[2].vertex + 1],
                                  vertices[window[3].vertex + 1]))
             ELSE Panic)

\* the pushes of the loop over the windows, from the i-th on
RECURSIVE PushWindows(_, _, _, _, _, _)
PushWindows(groups0, name0, vertices0, normals0, indices0, i0) ==
    Let3(groups0, indices0, i0, LAMBDA groups, indices, i :
        IF i + 2 > Len(indices) THEN Ok(groups)
        ELSE Let1(WindowTriangle(vertices0, normals0, Window(indices, i)), LAMBDA triangle :
                IF ~triangle.ok THEN Panic
                ELSE PushWindows(HashMap_push(groups, name0, triangle.val), name0,
                                 vertices0, normals0, indices, i + 1)))

\* the "f" arm: the groups after the line, or a panic
Face(groups0, name0, vertices0, normals0, rest0) ==
    Let1(MapSeq(rest0, FaceIndex), LAMBDA indices :
        IF Len(indices) = 0 \/ \E k \in 1..Len(indices) : ~indices[k].ok THEN Panic
        ELSE PushWindows(groups0, name0, vertices0, normals0,
                         MapSeq(indices, LAMBDA r : r.val), 1))

(***************************************************************************)
(* Camera and Canvas: Camera::render                                       *)
(***************************************************************************)
PI == 63

\* f64::tan as the quotient of the series of sine and cosine
FTan(a0) ==
    Let1(a0, LAMBDA a :
        IF IsNaN(a) \/ IsInf(a) THEN NaN
        ELSE Let1(FMul(a, a), LAMBDA a2 :
             Let2(FMul(a2, a), FMul(a2, a2), LAMBDA a3, a4 :
                 FDiv(FAdd(FSub(a, FDiv(a3, Num(6))), FDiv(FMul(a4, a), Num(120))),
                      FAdd(FSub(One, FDiv(a2, Num(2))), FDiv(a4, Num(24)))))))

Camera_new(hsize, vsize, field_of_view) ==
    [hsize |-> hsize, vsize |-> vsize, field_of_view |-> field_of_view,
     transform |-> Matrix4_identity]

\* the pair (half_width, half_height)
Camera_half_extents(camera0) ==
    Let1(camera0, LAMBDA camera :
        Let2(FTan(FDiv(camera.field_of_view, Num(2))),
             FDiv(Num(camera.hsize), Num(camera.vsize)),
             LAMBDA half_view, aspect :
                 IF FGt(aspect, Num(1))
                 THEN <<half_view, FDiv(half_view, aspect)>>
                 ELSE <<FMul(half_view, aspect), half_view>>))

Camera_pixel_size(camera0) ==
    Let1(camera0, LAMBDA camera :
        Let1(Camera_half_extents(camera), LAMBDA half :
            FDiv(FMul(Num(2), half[1]), Num(camera.hsize))))

\* panics when the camera's transform has no inverse
Camera_ray_for_pixel(camera0, px0, py0) ==
    Let3(camera0, px0, py0, LAMBDA camera, px, py :
        Let3(FMul(FAdd(Num(px), One \div 2), Camera_pixel_size(camera)),
             FMul(FAdd(Num(py), One \div 2), Camera_pixel_size(camera)),
             Camera_half_extents(camera),
             LAMBDA x_offset, y_offset, half :
                 Let3(FSub(half[1], x_offset), FSub(half[2], y_offset),
                      Matrix4_inverse(camera.transform),
                      LAMBDA world_x, world_y, inverse :
                          IF ~inverse.some THEN Panic
                          ELSE Let2(Matrix4_mul_tuple(inverse.val,
                                        Tuple_point(world_x, world_y, 0 - One)),
                                    Matrix4_mul_tuple(inverse.val, Tuple_point(0, 0, 0)),
                                    LAMBDA pixel, origin :
                                        Ok(Ray_new(origin,
                                            Tuple_normalize(Tuple_sub(pixel, origin))))))))

\* the colour the shared world gives to a ray.  The world sits behind an Arc
\* that no thread mutates, so the colour depends on the ray alone; SpecShade
\* follows its computation, here it is named by the ray it is the colour of.
World_color_at(ray0) == Let1(ray0, LAMBDA r : [color_at |-> r])

num_threads == 8

rows_per_thread(camera) == camera.vsize \div num_threads

y_low(camera, thread_index) == thread_index * rows_per_thread(camera)
y_high(camera, thread_index) == (thread_index + 1) * rows_per_thread(camera)

\* the inner loop of a worker: the pixels of row y are pushed from x = 0 up.
\* ray_for_pixel(camera, x, y) is the value Camera_ray_for_pixel computes
RECURSIVE PushRow(_, _, _, _, _)
PushRow(ray_for_pixel(_, _, _), camera, pixels, x, y) ==
    IF x >= camera.hsize THEN Ok(pixels)
    ELSE Let1(ray_for_pixel(camera, x, y), LAMBDA r :
             IF ~r.ok THEN Panic
             ELSE PushRow(ray_for_pixel, camera, Append(pixels, World_color_at(r.val)),
                          x + 1, y))

\* thread::spawn: the worker has its own vector of pixels; rows is the
\* history of the rows it rendered
Handle_spawn(camera, thread_index) ==
    [thread_index |-> thread_index, y |-> y_low(camera, thread_index),
     pixels |-> <<>>, rows |-> <<>>, finished |-> FALSE, panicked |-> FALSE]

\* Vec::append: the elements of v are moved to the end of pixels
Vec_append_front(pixels, v) == v \o pixels
Vec_append(pixels, v) == pixels \o v

Canvas_of(width, height, pixels) ==
    [width |-> width, height |-> height, pixels |-> pixels]

\* a Vec index out of bounds panics
Canvas_pixel_at(canvas, x, y) ==
    IF x + y * canvas.width < Len(canvas.pixels)
    THEN Ok(canvas.pixels[x + y * canvas.width + 1])
    ELSE Panic

MaxHSize == 2
MaxVSize == 16

FieldOfView == FDiv(PI, Num(2))

Cameras ==
    {Camera_new(hsize, vsize, FieldOfView) : hsize \in 1..MaxHSize, vsize \in 1..MaxVSize}

\* <<F(k), .., F(n)>>
RECURSIVE Tabulate(_, _, _)
Tabulate(F(_), k, n) == IF k > n THEN <<>> ELSE <<F(k)>> \o Tabulate(F, k + 1, n)

\* Camera_ray_for_pixel of the pixels of the cameras rendered, computed once:
\* it takes self by value and reads nothing else.  RaysOf[hsize][vsize][py + 1][px + 1]
RaysOf ==
    Tabulate(LAMBDA hsize :
        Tabulate(LAMBDA vsize :
            Tabulate(LAMBDA y :
                Tabulate(LAMBDA x :
                    Camera_ray_for_pixel(Camera_new(hsize, vsize, FieldOfView), x - 1, y - 1),
                    1, hsize),
                1, vsize),
            1, MaxVSize),
        1, MaxHSize)

RayOf(camera, px, py) ==
    IF camera \in Cameras
    THEN RaysOf[camera.hsize][camera.vsize][py + 1][px + 1]
    ELSE Camera_ray_for_pixel(camera, px, py)

(***************************************************************************)
(* State                                                                   *)
(***************************************************************************)
VARIABLES
    obj,    \* the object tree built by scene setup
    ray,    \* the ray about to be cast
    out,    \* result of the last Object::intersect: Ok(sequence) or Panic
    last,   \* the last operation performed
    arg,    \* the argument of the last set_material / transform assignment
    f_csg,  \* filter_intersections: self
    f_xs,   \* filter_intersections: the argument intersections
    f_k,    \* filter_intersections: position of the for loop (1-based)
    f_st,   \* filter_intersections: the locals inl, inr, result
    f_dec,  \* filter_intersections: left_hit, inl, inr and the value of the
            \* if condition in the latest iteration
    f_pc,   \* filter_intersections: "idle", "loop" or "done"
    f_ret,  \* filter_intersections: the returned vector
    h_xs,   \* the intersection sequence given to hit / prepare_computations
    h_hit,  \* the result of Intersection::hit(h_xs)
    h_self, \* compute_refractive_indices: position in h_xs of the queried hit
    h_k,    \* compute_refractive_indices: position of the for loop (1-based)
    h_st,   \* compute_refractive_indices: the locals containers, n1, n2
    h_pc,   \* "idle", "start", "hit", "walk", "break" or "done"
    h_ret,  \* compute_refractive_indices: the returned pair
    world,    \* the World being rendered
    s_stack,  \* the activations of color_at_with_depth, innermost last
    s_pc,     \* "idle", "running", "done" or "panicked"
    s_root,   \* the public entry point that was called
    s_result, \* the colour returned to the outermost caller
    s_last,   \* history: the activation that returned last
    w_q,      \* prepare_computations: position in out.val of the hit it is called on
    w_comps,  \* prepare_computations: what the latest call returned
    o_read,       \* history: the lines of the file read so far
    o_vertices,   \* from_file_contents: vertices
    o_normals,    \* from_file_contents: normals
    o_current_group,
    o_groups,     \* from_file_contents: groups, a map from names to triangles
    o_st,         \* "idle", "reading", "returned" or "panic"
    r_camera,     \* Camera::render: self
    r_pc,         \* "idle", "new", "spawn", "join", "returned" or "panic"
    r_handles,    \* render: the handles of the spawned workers with their state
    r_joined,     \* render: how many handles the join loop has consumed
    r_pixels,     \* render: pixels
    r_overtaken,  \* history: a worker finished before one of a lower index
    r_canvas      \* what render returned

sceneVars == <<obj, ray, out, last, arg>>
filterVars == <<f_csg, f_xs, f_k, f_st, f_dec, f_pc, f_ret>>

hitVars == <<h_xs, h_hit, h_self, h_k, h_st, h_pc, h_ret>>

shadeVars == <<world, s_stack, s_pc, s_root, s_result, s_last>>

prepVars == <<w_q, w_comps>>

objVars == <<o_read, o_vertices, o_normals, o_current_group, o_groups, o_st>>

renderVars == <<r_camera, r_pc, r_handles, r_joined, r_pixels, r_overtaken, r_canvas>>

\* the variables of the specifications after SpecShade
restVars == <<prepVars, objVars, renderVars>>

vars ==
    <<obj, ray, out, last, arg, f_csg, f_xs, f_k, f_st, f_dec, f_pc, f_ret,
      h_xs, h_hit, h_self, h_k, h_st, h_pc, h_ret,
      world, s_stack, s_pc, s_root, s_result, s_last,
      w_q, w_comps,
      o_read, o_vertices, o_normals, o_current_group, o_groups, o_st,
      r_camera, r_pc, r_handles, r_joined, r_pixels, r_overtaken, r_canvas>>

NoArg == "none"
NoDecision ==
    [valid |-> FALSE, op |-> "Union", left_hit |-> FALSE, inl |-> FALSE, inr |-> FALSE,
     allowed |-> FALSE]

SceneIdle ==
    /\ obj = Object_sphere
    /\ ray = Ray_at(0, 0, 0 - 5, 0, 0, 1)
    /\ out = Ok(<<>>)
    /\ last = "new"
    /\ arg = NoArg

FilterIdle ==
    /\ f_csg = Csg_new("Union", Object_sphere, Object_cube)
    /\ f_xs = <<>>
    /\ f_k = 1
    /\ f_st = [inl |-> FALSE, inr |-> FALSE, result |-> <<>>]
    /\ f_dec = NoDecision
    /\ f_pc = "idle"
    /\ f_ret = <<>>

HitIdle ==
    /\ h_xs = <<>>
    /\ h_hit = None
    /\ h_self = 0
    /\ h_k = 1
    /\ h_st = RefractStart
    /\ h_pc = "idle"
    /\ h_ret = <<One, One>>

NoReturn ==
    [valid |-> FALSE, remaining_depth |-> 0, hit |-> FALSE, calls |-> 0,
     material |-> Material_new, surface |-> Color_black, colour |-> Color_black]

ShadeIdle ==
    /\ world = World_new(<<>>, <<>>)
    /\ s_stack = <<>>
    /\ s_pc = "idle"
    /\ s_root = "none"
    /\ s_result = Color_black
    /\ s_last = NoReturn

PrepIdle ==
    /\ w_q = 0
    /\ w_comps = None

ObjIdle ==
    /\ o_read = <<>>
    /\ o_vertices = <<>>
    /\ o_normals = <<>>
    /\ o_current_group = "default"
    /\ o_groups = HashMap_new
    /\ o_st = "idle"

RenderIdle ==
    /\ r_camera = None
    /\ r_pc = "idle"
    /\ r_handles = <<>>
    /\ r_joined = 0
    /\ r_pixels = <<>>
    /\ r_overtaken = FALSE
    /\ r_canvas = None

RestIdle == PrepIdle /\ ObjIdle /\ RenderIdle

(***************************************************************************)
(* Spec: an object tree is set up, modified and intersected with rays      *)
(***************************************************************************)
Init ==
    /\ obj \in Scenes
    /\ ray \in Rays
    /\ out = Ok(<<>>)
    /\ last = "new"
    /\ arg = NoArg
    /\ FilterIdle
    /\ HitIdle
    /\ ShadeIdle
    /\ RestIdle

\* xs = object.intersect(ray)
Intersect ==
    /\ out' = Object_intersect(obj, ray)
    /\ last' = "intersect"
    /\ arg' = NoArg
    /\ UNCHANGED <<obj, ray, filterVars, hitVars, shadeVars, restVars>>

\* object.set_material(material)
SetMaterial ==
    \E material \in Materials :
        /\ obj' = Object_set_material(obj, material)
        /\ last' = "set_material"
        /\ arg' = material
        /\ out' = Ok(<<>>)
        /\ UNCHANGED <<ray, filterVars, hitVars, shadeVars, restVars>>

\* object.transform = t
SetTransform ==
    \E t \in Transforms :
        /\ obj' = WithTransform(obj, t)
        /\ last' = "set_transform"
        /\ arg' = NoArg
        /\ out' = Ok(<<>>)
        /\ UNCHANGED <<ray, filterVars, hitVars, shadeVars, restVars>>

\* another ray is cast at the same tree
Aim ==
    \E r \in Rays :
        /\ ray' = r
        /\ last' = "aim"
        /\ arg' = NoArg
        /\ out' = Ok(<<>>)
        /\ UNCHANGED <<obj, filterVars, hitVars, shadeVars, restVars>>

Next == Intersect \/ SetMaterial \/ SetTransform \/ Aim

Spec == Init /\ [][Next]_vars

(***************************************************************************)
(* SpecFilter: Csg::filter_intersections, one loop iteration per step      *)
(***************************************************************************)
InitFilter ==
    /\ SceneIdle
    /\ HitIdle
    /\ ShadeIdle
    /\ RestIdle
    /\ f_csg \in FilterCsgs
    /\ f_xs \in HitSequences(f_csg)
    /\ f_k = 1
    /\ f_st = [inl |-> FALSE, inr |-> FALSE, result |-> <<>>]
    /\ f_dec = NoDecision
    /\ f_pc = "loop"
    /\ f_ret = <<>>

\* the body of `for i in intersections`
FilterStep ==
    /\ f_pc = "loop"
    /\ f_k <= Len(f_xs)
    /\ LET i == f_xs[f_k]
           left_hit == Object_includes(f_csg.left, i.object)
       IN  /\ f_dec' = [valid |-> TRUE, op |-> f_csg.op, left_hit |-> left_hit,
                        inl |-> f_st.inl, inr |-> f_st.inr,
                        allowed |-> CsgOp_intersection_allowed(f_csg.op, left_hit,
                                                               f_st.inl, f_st.inr)]
           /\ f_st' = FilterIteration(f_csg, f_st, i)
    /\ f_k' = f_k + 1
    /\ UNCHANGED <<f_csg, f_xs, f_pc, f_ret, sceneVars, hitVars, shadeVars, restVars>>

\* the loop is over: `result` is returned
FilterReturn ==
    /\ f_pc = "loop"
    /\ f_k > Len(f_xs)
    /\ f_ret' = f_st.result
    /\ f_pc' = "done"
    /\ UNCHANGED <<f_csg, f_xs, f_k, f_st, f_dec, sceneVars, hitVars, shadeVars, restVars>>

NextFilter == FilterStep \/ FilterReturn

SpecFilter == InitFilter /\ [][NextFilter]_vars

(***************************************************************************)
(* SpecHit: Intersection::hit on a sequence, then prepare_computations'    *)
(* compute_refractive_indices for one of its elements, one loop iteration  *)
(* per step                                                                *)
(***************************************************************************)
IsSortedByT(xs) == \A j \in 1..(Len(xs) - 1) : FLe(xs[j].t, xs[j + 1].t)

InitHit ==
    /\ SceneIdle
    /\ FilterIdle
    /\ ShadeIdle
    /\ RestIdle
    /\ h_xs \in HitInputs
    /\ h_hit = None
    /\ h_self = 0
    /\ h_k = 1
    /\ h_st = RefractStart
    /\ h_pc = "start"
    /\ h_ret = <<One, One>>

\* hit = Intersection::hit(&intersections)
Hit ==
    /\ h_pc = "start"
    /\ h_hit' = Intersection_hit(h_xs)
    /\ h_pc' = "hit"
    /\ UNCHANGED <<h_xs, h_self, h_k, h_st, h_ret, sceneVars, filterVars, shadeVars, restVars>>

\* xs[q].prepare_computations(ray, &xs) enters compute_refractive_indices;
\* all_intersections is the sorted result of World::intersect
PrepareComputations ==
    /\ h_pc = "hit"
    /\ IsSortedByT(h_xs)
    /\ \E q \in 1..Len(h_xs) : h_self' = q
    /\ h_k' = 1
    /\ h_st' = RefractStart
    /\ h_pc' = "walk"
    /\ UNCHANGED <<h_xs, h_hit, h_ret, sceneVars, filterVars, shadeVars, restVars>>

\* the body of `for &i in all_intersections`
RefractStep ==
    /\ h_pc = "walk"
    /\ h_k <= Len(h_xs)
    /\ h_st' = RefractIteration(h_xs[h_self], h_st, h_xs[h_k])
    /\ h_pc' = IF h_st'.broke THEN "break" ELSE "walk"
    /\ h_k' = h_k + 1
    /\ UNCHANGED <<h_xs, h_hit, h_self, h_ret, sceneVars, filterVars, shadeVars, restVars>>

\* (n1, n2) is returned after the break or at the end of the sequence
RefractReturn ==
    /\ h_pc = "break" \/ (h_pc = "walk" /\ h_k > Len(h_xs))
    /\ h_ret' = <<h_st.n1, h_st.n2>>
    /\ h_pc' = "done"
    /\ UNCHANGED <<h_xs, h_hit, h_self, h_k, h_st, sceneVars, filterVars, shadeVars, restVars>>

NextHit == Hit \/ PrepareComputations \/ RefractStep \/ RefractReturn

SpecHit == InitHit /\ [][NextHit]_vars

(***************************************************************************)
(* SpecShade: World::color_at / color_at_with_depth as a stack of          *)
(* activations.  An activation is at "color_at" (about to intersect),      *)
(* "reflected_color", "await_reflected" (its reflection ray is being       *)
(* traced), "refracted_color", "await_refracted" or "combine".             *)
(***************************************************************************)
NoComps ==
    [object |-> SimpleObject_from_object(Object_sphere).val, inside |-> FALSE,
     eye_vector |-> Tuple_vector(0, 0, 0), normal_vector |-> Tuple_vector(0, 0, 0),
     reflect_vector |-> Tuple_vector(0, 0, 0), over_point |-> Tuple_point(0, 0, 0),
     under_point |-> Tuple_point(0, 0, 0), n1 |-> One, n2 |-> One]

Activation(r, remaining_depth) ==
    [ray |-> r, remaining_depth |-> remaining_depth, pc |-> "color_at", comps |-> NoComps,
     surface |-> Color_black, reflected |-> Color_black, refracted |-> Color_black,
     calls |-> 0]

Top == s_stack[Len(s_stack)]

SetTop(frame) == [s_stack EXCEPT ![Len(s_stack)] = frame]

\* the stack after the innermost activation has returned colour: its caller
\* scales the colour and goes on
Returned(colour) ==
    Let1(SubSeq(s_stack, 1, Len(s_stack) - 1), LAMBDA rest :
        IF Len(rest) = 0 THEN rest
        ELSE Let2(rest[Len(rest)], rest[Len(rest)].comps.object.material,
                  LAMBDA caller, material :
                    [rest EXCEPT ![Len(rest)] =
                        IF caller.pc = "await_reflected"
                        THEN [caller EXCEPT
                                !.reflected = Color_mul(colour, material.reflective),
                                !.pc = "refracted_color"]
                        ELSE [caller EXCEPT
                                !.refracted = Color_mul(colour, material.transparency),
                                !.pc = "combine"]]))

Return(colour, hit) ==
    /\ s_stack' = Returned(colour)
    /\ s_pc' = IF Len(s_stack) = 1 THEN "done" ELSE "running"
    /\ s_result' = IF Len(s_stack) = 1 THEN colour ELSE s_result
    /\ s_last' = [valid |-> TRUE, remaining_depth |-> Top.remaining_depth, hit |-> hit,
                  calls |-> Top.calls, material |-> Top.comps.object.material,
                  surface |-> Top.surface, colour |-> colour]

InitShade ==
    /\ SceneIdle
    /\ FilterIdle
    /\ HitIdle
    /\ RestIdle
    /\ world \in ShadeWorlds
    /\ s_stack = <<>>
    /\ s_pc = "idle"
    /\ s_root = "none"
    /\ s_result = Color_black
    /\ s_last = NoReturn

\* world.color_at(ray)
ColorAt ==
    /\ s_pc = "idle"
    /\ \E r \in ShadeRays : s_stack' = <<Activation(r, DEFAULT_ALLOWED_DEPTH)>>
    /\ s_pc' = "running"
    /\ s_root' = "color_at"
    /\ UNCHANGED <<world, s_result, s_last, sceneVars, filterVars, hitVars, restVars>>

\* world.color_at_with_depth(ray, remaining_depth)
ColorAtWithDepth ==
    /\ s_pc = "idle"
    /\ \E r \in ShadeRays, remaining_depth \in Depths :
            s_stack' = <<Activation(r, remaining_depth)>>
    /\ s_pc' = "running"
    /\ s_root' = "color_at_with_depth"
    /\ UNCHANGED <<world, s_result, s_last, sceneVars, filterVars, hitVars, restVars>>

\* an unwrap() or a comparison inside the call panicked
Panicked ==
    /\ s_pc' = "panicked"
    /\ UNCHANGED <<s_stack, s_result, s_last>>

\* color_at_with_depth up to the first lines of shade_hit: intersect, hit,
\* prepare_computations, surface_color; without a hit it returns black
ColorAtBody ==
    /\ s_pc = "running"
    /\ Top.pc = "color_at"
    /\ \E intersections \in {World_intersect(world.objects, Top.ray)} :
          IF ~intersections.ok THEN Panicked
          ELSE \E hit \in {Intersection_hit(intersections.val)} :
                  IF ~hit.some THEN Return(Color_black, FALSE)
                  ELSE \E comps \in {Intersection_prepare_computations(hit.val, Top.ray,
                                                                       intersections.val)} :
                          IF ~comps.ok THEN Panicked
                          ELSE \E surface \in {surface_color(world, comps.val)} :
                                  IF ~surface.ok THEN Panicked
                                  ELSE /\ s_stack' = SetTop([Top EXCEPT
                                                                !.comps = comps.val,
                                                                !.surface = surface.val,
                                                                !.pc = "reflected_color"])
                                       /\ UNCHANGED <<s_pc, s_result, s_last>>
    /\ UNCHANGED <<world, s_root, sceneVars, filterVars, hitVars, restVars>>

\* World::reflected_color up to its recursive call
ReflectedColor ==
    /\ s_pc = "running"
    /\ Top.pc = "reflected_color"
    /\ IF no_depth_remaining(Top.remaining_depth) \/ ~FGt(Top.comps.object.material.reflective, 0)
       THEN s_stack' = SetTop([Top EXCEPT !.reflected = Color_black, !.pc = "refracted_color"])
       ELSE /\ Len(s_stack) < MaxFrames
            /\ \E reflect_ray_ \in {reflect_ray(Top.comps)} :
                  s_stack' = Append(SetTop([Top EXCEPT !.pc = "await_reflected",
                                                       !.calls = @ + 1]),
                                    Activation(reflect_ray_, nested_depth(Top.remaining_depth)))
    /\ UNCHANGED <<world, s_pc, s_root, s_result, s_last, sceneVars, filterVars, hitVars, restVars>>

\* World::refracted_color up to its recursive call
RefractedColor ==
    /\ s_pc = "running"
    /\ Top.pc = "refracted_color"
    /\ \E object_is_opaque \in {Top.comps.object.material.transparency = 0},
          total_internal_reflection \in {FGt(sin2_t_of(Top.comps), One)} :
          IF Top.remaining_depth = 0 \/ object_is_opaque \/ total_internal_reflection
          THEN s_stack' = SetTop([Top EXCEPT !.refracted = Color_black, !.pc = "combine"])
          ELSE /\ Len(s_stack) < MaxFrames
               /\ \E refract_ray_ \in {refract_ray(Top.comps)} :
                     s_stack' = Append(SetTop([Top EXCEPT !.pc = "await_refracted",
                                                          !.calls = @ + 1]),
                                       Activation(refract_ray_,
                                                  nested_depth(Top.remaining_depth)))
    /\ UNCHANGED <<world, s_pc, s_root, s_result, s_last, sceneVars, filterVars, hitVars, restVars>>

\* the three colours are summed without the weights of schlick
shade_hit_sum_unweighted(frame0) ==
    Let1(frame0, LAMBDA frame :
        Color_add(Color_add(frame.surface, frame.reflected), frame.refracted))

\* the colour shade_hit returns: the surface, reflected and refracted colours
\* summed, the last two weighted by schlick when the material both reflects
\* and transmits
shade_hit_sum(frame0) ==
    Let2(frame0, frame0.comps.object.material, LAMBDA frame, material :
        IF FGt(material.reflective, 0) /\ FGt(material.transparency, 0)
        THEN Let1(ComputedIntersection_schlick(frame.comps), LAMBDA reflectance :
                Color_add(Color_add(frame.surface, Color_mul(frame.reflected, reflectance)),
                          Color_mul(frame.refracted, FSub(One, reflectance))))
        ELSE Color_add(Color_add(frame.surface, frame.reflected), frame.refracted))

\* the last lines of shade_hit: the three colours are combined and returned
ShadeReturn ==
    /\ s_pc = "running"
    /\ Top.pc = "combine"
    /\ \E colour \in {shade_hit_sum(Top)} : Return(colour, TRUE)
    /\ UNCHANGED <<world, s_root, sceneVars, filterVars, hitVars, restVars>>

ShadeStep == ColorAtBody \/ ReflectedColor \/ RefractedColor \/ ShadeReturn

NextShade == ColorAt \/ ColorAtWithDepth \/ ShadeStep

SpecShade == InitShade /\ [][NextShade]_vars

\* a call that has started keeps running until it returns
SpecShadeFair == SpecShade /\ WF_vars(ShadeStep)

(***************************************************************************)
(* SpecWorld: a world and a ray; World::intersect, then                    *)
(* prepare_computations on hits of its result, any number of times; or     *)
(* World::is_shadowed for a point and one of the lights                    *)
(***************************************************************************)
ThreeGlassWorld ==
    World_new(GlassWorld, <<Light_point_light(Tuple_point(0, 0, 0 - Num(10)), Color_white)>>)

Worlds == ShadeWorlds \cup {ThreeGlassWorld}

WorldRays == ShadeRays \cup {ExampleRay}

\* on the z axis: behind the unit sphere, behind the light, between light and
\* sphere, inside the sphere; and one off the axis
WorldPoints ==
    {Tuple_point(0, 0, Num(5)), Tuple_point(0, 0, 0 - Num(20)), Tuple_point(0, 0, 0 - Num(5)),
     Tuple_point(0, 0, 0), Tuple_point(0, Num(5), 0)}

InitWorld ==
    /\ FilterIdle
    /\ HitIdle
    /\ RestIdle
    /\ obj = Object_sphere
    /\ world \in Worlds
    /\ ray \in WorldRays
    /\ out = Ok(<<>>)
    /\ last = "new"
    /\ arg = NoArg
    /\ s_stack = <<>>
    /\ s_pc = "idle"
    /\ s_root = "none"
    /\ s_result = Color_black
    /\ s_last = NoReturn

\* xs = world.intersect(ray)
WorldIntersect ==
    /\ last = "new"
    /\ out' = World_intersect(world.objects, ray)
    /\ last' = "world_intersect"
    /\ UNCHANGED <<obj, ray, arg, filterVars, hitVars, shadeVars, restVars>>

\* comps = xs[q].prepare_computations(ray, &xs)
Prepare ==
    /\ last \in {"world_intersect", "prepare_computations"}
    /\ out.ok
    /\ \E q \in 1..Len(out.val) :
          /\ w_q' = q
          /\ w_comps' = Some(Intersection_prepare_computations(out.val[q], ray, out.val))
    /\ last' = "prepare_computations"
    /\ UNCHANGED <<obj, ray, out, arg, filterVars, hitVars, shadeVars, objVars, renderVars>>

\* world.is_shadowed(point, light)
IsShadowed ==
    /\ last = "new"
    /\ \E point \in WorldPoints, k \in 1..Len(world.lights) :
          /\ out' = World_is_shadowed(world, point, world.lights[k])
          /\ arg' = [point |-> point, light |-> world.lights[k]]
    /\ last' = "is_shadowed"
    /\ UNCHANGED <<obj, ray, filterVars, hitVars, shadeVars, restVars>>

NextWorld == WorldIntersect \/ Prepare \/ IsShadowed

SpecWorld == InitWorld /\ [][NextWorld]_vars

(***************************************************************************)
(* SpecObj: WavefrontObj::from_file_contents reads a file, one line per    *)
(* step.  The file is any sequence of the lines below with at most         *)
(* MaxVertices "v" lines and MaxOtherLines other lines; its n-th "v" line  *)
(* reads "v n n*n 0".                                                      *)
(***************************************************************************)
MaxVertices == 4
MaxOtherLines == 3

Line(node_type, rest) == [split |-> TRUE, node_type |-> node_type, rest |-> rest]

VertexLine(n) == Line("v", <<Num(n), Num(n * n), 0>>)

NormalLine == Line("vn", <<0, 0, One>>)

\* "f 1 2 3", "f 1 2 3 4" and "f 1//1 2//1 3//1"
FaceLines ==
    {Line("f", <<<<Some(1)>>, <<Some(2)>>, <<Some(3)>>>>),
     Line("f", <<<<Some(1)>>, <<Some(2)>>, <<Some(3)>>, <<Some(4)>>>>),
     Line("f", <<<<Some(1), None, Some(1)>>, <<Some(2), None, Some(1)>>,
                 <<Some(3), None, Some(1)>>>>)}

GroupLines == {Line("g", "FirstGroup"), Line("g", "SecondGroup")}

\* "# comment" and a line without a space
OtherLines == {Line("#", "comment"), [split |-> FALSE, node_type |-> "", rest |-> ""]}

InitObj ==
    /\ SceneIdle
    /\ FilterIdle
    /\ HitIdle
    /\ ShadeIdle
    /\ PrepIdle
    /\ RenderIdle
    /\ o_read = <<>>
    /\ o_vertices = <<>>
    /\ o_normals = <<>>
    /\ o_current_group = "default"
    /\ o_groups = HashMap_new
    /\ o_st = "reading"

MoreOtherLines == o_st = "reading" /\ Len(o_read) - Len(o_vertices) < MaxOtherLines

\* "v" => vertices.push(Tuple::point(x, y, z))
ReadVertex ==
    /\ o_st = "reading"
    /\ Len(o_vertices) < MaxVertices
    /\ \E line \in {VertexLine(Len(o_vertices) + 1)} :
          /\ o_read' = Append(o_read, line)
          /\ o_vertices' =
                Append(o_vertices, Tuple_point(line.rest[1], line.rest[2], line.rest[3]))
    /\ UNCHANGED <<o_normals, o_current_group, o_groups, o_st>>
    /\ UNCHANGED <<sceneVars, filterVars, hitVars, shadeVars, prepVars, renderVars>>

\* "vn" => normals.push(Tuple::vector(x, y, z))
ReadNormal ==
    /\ MoreOtherLines
    /\ \E line \in {NormalLine} :
          /\ o_read' = Append(o_read, line)
          /\ o_normals' =
                Append(o_normals, Tuple_vector(line.rest[1], line.rest[2], line.rest[3]))
    /\ UNCHANGED <<o_vertices, o_current_group, o_groups, o_st>>
    /\ UNCHANGED <<sceneVars, filterVars, hitVars, shadeVars, prepVars, renderVars>>

\* "f" => one triangle per window, pushed to the current group
ReadFace ==
    /\ MoreOtherLines
    /\ \E line \in FaceLines :
          /\ o_read' = Append(o_read, line)
          /\ \E groups \in {Face(o_groups, o_current_group, o_vertices, o_normals,
                                  line.rest)} :
                IF groups.ok
                THEN o_groups' = groups.val /\ o_st' = o_st
                ELSE o_groups' = o_groups /\ o_st' = "panic"
    /\ UNCHANGED <<o_vertices, o_normals, o_current_group>>
    /\ UNCHANGED <<sceneVars, filterVars, hitVars, shadeVars, prepVars, renderVars>>

\* "g" => current_group = rest
ReadGroup ==
    /\ MoreOtherLines
    /\ \E line \in GroupLines :
          /\ o_read' = Append(o_read, line)
          /\ o_current_group' = line.rest
    /\ UNCHANGED <<o_vertices, o_normals, o_groups, o_st>>
    /\ UNCHANGED <<sceneVars, filterVars, hitVars, shadeVars, prepVars, renderVars>>

\* any other node type, and a line that split_once(" ") does not split
SkipLine ==
    /\ MoreOtherLines
    /\ \E line \in OtherLines : o_read' = Append(o_read, line)
    /\ UNCHANGED <<o_vertices, o_normals, o_current_group, o_groups, o_st>>
    /\ UNCHANGED <<sceneVars, filterVars, hitVars, shadeVars, prepVars, renderVars>>

\* no line is left: Ok(WavefrontObj { groups, .. })
EndOfFile ==
    /\ o_st = "reading"
    /\ o_st' = "returned"
    /\ UNCHANGED <<o_read, o_vertices, o_normals, o_current_group, o_groups>>
    /\ UNCHANGED <<sceneVars, filterVars, hitVars, shadeVars, prepVars, renderVars>>

NextObj == ReadVertex \/ ReadNormal \/ ReadFace \/ ReadGroup \/ SkipLine \/ EndOfFile

SpecObj == InitObj /\ [][NextObj]_vars

(***************************************************************************)
(* SpecRender: Camera::render.  The main thread spawns eight workers, each *)
(* renders its rows into a vector of its own, and the main thread joins    *)
(* the handles in the order it spawned them.  A step of a worker is one    *)
(* row; the workers run in any order, also while the main thread is still  *)
(* spawning.                                                               *)
(***************************************************************************)
InitRender ==
    /\ SceneIdle
    /\ FilterIdle
    /\ HitIdle
    /\ ShadeIdle
    /\ PrepIdle
    /\ ObjIdle
    /\ r_camera \in Cameras
    /\ r_pc = "new"
    /\ r_handles = <<>>
    /\ r_joined = 0
    /\ r_pixels = <<>>
    /\ r_overtaken = FALSE
    /\ r_canvas = None

otherVars == <<sceneVars, filterVars, hitVars, shadeVars, prepVars, objVars>>

\* render is called: the canvas is allocated, rows_per_thread is computed and
\* the world is moved behind an Arc
Render ==
    /\ r_pc = "new"
    /\ r_pc' = "spawn"
    /\ UNCHANGED <<r_camera, r_handles, r_joined, r_pixels, r_overtaken, r_canvas>>
    /\ UNCHANGED otherVars

\* for thread_index in 0..num_threads { handles.push(thread::spawn(..)) };
\* after the last one: let mut pixels = Vec::with_capacity(..)
Spawn ==
    /\ r_pc = "spawn"
    /\ \E thread_index \in {Len(r_handles)} :
          /\ thread_index < num_threads
          /\ r_handles' = Append(r_handles, Handle_spawn(r_camera, thread_index))
          /\ r_pc' = IF thread_index + 1 = num_threads THEN "join" ELSE "spawn"
    /\ UNCHANGED <<r_camera, r_joined, r_pixels, r_overtaken, r_canvas>>
    /\ UNCHANGED otherVars

\* the worker of a handle renders its next row; with the last row of its
\* range (at once when the range is empty) it returns its pixels
Worker ==
    /\ r_pc \in {"spawn", "join"}
    /\ \E i \in 1..Len(r_handles) :
          /\ ~r_handles[i].finished
          /\ \E h \in {r_handles[i]} :
             \E row \in {IF h.y < y_high(r_camera, h.thread_index)
                         THEN PushRow(RayOf, r_camera, h.pixels, 0, h.y)
                         ELSE Ok(h.pixels)} :
             \E after \in {IF ~row.ok
                           THEN [h EXCEPT !.finished = TRUE, !.panicked = TRUE]
                           ELSE IF h.y < y_high(r_camera, h.thread_index)
                           THEN [h EXCEPT !.pixels = row.val, !.y = h.y + 1,
                                          !.rows = Append(h.rows, h.y),
                                          !.finished =
                                              h.y + 1 >= y_high(r_camera, h.thread_index)]
                           ELSE [h EXCEPT !.finished = TRUE]} :
                /\ r_handles' = [r_handles EXCEPT ![i] = after]
                /\ r_overtaken' =
                      (r_overtaken
                          \/ (after.finished /\ \E j \in 1..(i - 1) : ~r_handles[j].finished))
    /\ UNCHANGED <<r_camera, r_pc, r_joined, r_pixels, r_canvas>>
    /\ UNCHANGED otherVars

\* for handle in handles.into_iter() { pixels.append(&mut handle.join().unwrap()) }:
\* join blocks until the worker of the next handle has finished
Join ==
    /\ r_pc = "join"
    /\ r_joined < Len(r_handles)
    /\ \E h \in {r_handles[r_joined + 1]} :
          /\ h.finished
          /\ IF h.panicked
             THEN /\ r_pc' = "panic"
                  /\ UNCHANGED r_pixels
             ELSE /\ r_pixels' = Vec_append(r_pixels, h.pixels)
                  /\ UNCHANGED r_pc
    /\ r_joined' = r_joined + 1
    /\ UNCHANGED <<r_camera, r_handles, r_overtaken, r_canvas>>
    /\ UNCHANGED otherVars

\* Canvas { width: self.hsize, height: self.vsize, pixels }
RenderReturn ==
    /\ r_pc = "join"
    /\ r_joined = Len(r_handles)
    /\ r_canvas' = Some(Canvas_of(r_camera.hsize, r_camera.vsize, r_pixels))
    /\ r_pc' = "returned"
    /\ UNCHANGED <<r_camera, r_handles, r_joined, r_pixels, r_overtaken>>
    /\ UNCHANGED otherVars

NextRender == Render \/ Spawn \/ Worker \/ Join \/ RenderReturn

SpecRender == InitRender /\ [][NextRender]_vars

(***************************************************************************)
(* Claims                                                                  *)
(***************************************************************************)

\* C4: after Object::set_material(m) every leaf reachable from the node, inside
\* Groups and inside both operands of CSG nodes at any depth, has material m.
C4_SetMaterialReachesEveryLeaf ==
    last = "set_material" =>
        \A p \in LeafPaths(obj) : NodeAt(obj, p).material = arg

\* C9: bounding-box pruning never changes a result: whenever Object::intersect
\* returns, it returns the intersections of the same traversal without the
\* bounding-box test.
C9_PruningPreservesResult ==
    (last = "intersect" /\ out.ok) =>
        LET unpruned == IntersectWith(obj, ray, FALSE)
        IN  unpruned.ok /\ unpruned.val = out.val

\* C10: every intersection returned by Object::intersect carries the product of
\* the transforms on the path from the intersected node down to the producing
\* leaf, parent before child, and that leaf's own material.
C10_HitCarriesPathTransform ==
    (last = "intersect" /\ out.ok) =>
        \A j \in 1..Len(out.val) :
            LET i == out.val[j]
                leaf == NodeAt(obj, i.src)
            IN  /\ IsLeaf(leaf)
                /\ i.object.transform = PathProduct(obj, i.src)
                /\ i.object.material = leaf.material
                /\ i.object.shape = leaf.shape

\* a hit of a leaf two levels down, under transforms that do not commute
C10_Witness ==
    /\ last = "intersect" /\ out.ok
    /\ \E j \in 1..Len(out.val) :
          LET i == out.val[j]
          IN  /\ Len(i.src) >= 2
              /\ NodeAt(obj, i.src).material # Material_new
              /\ Matrix4_mul(NodeAt(obj, i.src).transform, obj.transform)
                    # Matrix4_mul(obj.transform, NodeAt(obj, i.src).transform)


(***************************************************************************)
(* Statements about filter_intersections                                   *)
(***************************************************************************)
Odd(n) == n % 2 = 1

\* the hits among the first n of xs whose position is marked in keep, in order
RECURSIVE Pick(_, _, _)
Pick(xs, n, keep) ==
    IF n = 0 THEN <<>>
    ELSE IF keep[n] THEN Append(Pick(xs, n - 1, keep), xs[n]) ELSE Pick(xs, n - 1, keep)

\* membership of a point in the combined solid
InSolid(op, in_left, in_right) ==
    CASE op = "Union" -> in_left \/ in_right
      [] op = "Intersection" -> in_left /\ in_right
      [] op = "Difference" -> in_left /\ ~in_right

\* the ray is inside the operand on side s just before hit k: it has crossed
\* that operand's surfaces an odd number of times
InsideBefore(xs, k, s) == Odd(Cardinality({j \in 1..(k - 1) : Head(xs[j].src) = s}))

ChangesMembership(op, xs, k) ==
    InSolid(op, InsideBefore(xs, k, 1), InsideBefore(xs, k, 2))
        # InSolid(op, InsideBefore(xs, k + 1, 1), InsideBefore(xs, k + 1, 2))

\* C1: filter_intersections keeps exactly the hits at which membership of the
\* ray point in the combined solid changes, and drops every other hit.
C1_KeepsExactlyTheBoundaryCrossings ==
    f_pc = "done" =>
        f_ret = Pick(f_xs, Len(f_xs),
                     [k \in 1..Len(f_xs) |-> ChangesMembership(f_csg.op, f_xs, k)])

LeftHit(j) == Object_includes(f_csg.left, f_xs[j].object)
LeftHitsBefore(k) == Cardinality({j \in 1..(k - 1) : LeftHit(j)})
RightHitsBefore(k) == Cardinality({j \in 1..(k - 1) : ~LeftHit(j)})
AllowedAt(k) ==
    CsgOp_intersection_allowed(f_csg.op, LeftHit(k), Odd(LeftHitsBefore(k)),
                               Odd(RightHitsBefore(k)))

ExampleKept(op) ==
    CASE op = "Union" -> <<f_xs[1], f_xs[4]>>
      [] op = "Intersection" -> <<f_xs[2], f_xs[3]>>
      [] op = "Difference" -> <<f_xs[1], f_xs[2]>>

\* C2: the flags start false; an intersection is kept iff the operator predicate
\* holds on (left_hit, inl, inr) as they stand before it; the flag of its side
\* is toggled whether or not it was kept; the result is the kept intersections
\* in input order (hits L,R,L,R: Union keeps 0 and 3, Intersection 1 and 2,
\* Difference 0 and 1).
C2_FilterWalk ==
    /\ f_pc \in {"loop", "done"} =>
          /\ f_st.inl = Odd(LeftHitsBefore(f_k))
          /\ f_st.inr = Odd(RightHitsBefore(f_k))
          /\ f_st.result = Pick(f_xs, f_k - 1, [k \in 1..(f_k - 1) |-> AllowedAt(k)])
    /\ f_pc = "done" =>
          /\ f_k = Len(f_xs) + 1
          /\ f_ret = f_st.result
          /\ (/\ Len(f_xs) = 4
              /\ LeftHit(1) /\ ~LeftHit(2) /\ LeftHit(3) /\ ~LeftHit(4))
                => f_ret = ExampleKept(f_csg.op)

\* hits L,R,L,R filtered by Difference: the last two are dropped, yet each
\* toggled its flag
C2_Witness ==
    /\ f_pc = "done" /\ f_csg.op = "Difference" /\ Len(f_xs) = 4
    /\ LeftHit(1) /\ ~LeftHit(2) /\ LeftHit(3) /\ ~LeftHit(4)
    /\ f_ret = <<f_xs[1], f_xs[2]>>
    /\ ~f_st.inl /\ ~f_st.inr

\* the rows of evaluating_the_rules_for_csg_operations that assert true,
\* as <<left_hit, inl, inr>>
RulesTable ==
    [Union |-> {<<TRUE, TRUE, FALSE>>, <<TRUE, FALSE, FALSE>>,
                <<FALSE, FALSE, TRUE>>, <<FALSE, FALSE, FALSE>>},
     Intersection |-> {<<TRUE, TRUE, TRUE>>, <<TRUE, FALSE, TRUE>>,
                       <<FALSE, TRUE, TRUE>>, <<FALSE, TRUE, FALSE>>},
     Difference |-> {<<TRUE, TRUE, FALSE>>, <<TRUE, FALSE, FALSE>>,
                     <<FALSE, TRUE, TRUE>>, <<FALSE, TRUE, FALSE>>}]

\* C3: intersection_allowed agrees with the 24-row table of the test on every
\* (operator, left_hit, inl, inr), in particular on the one just evaluated.
C3_RulesTable ==
    /\ \A op \in CsgOps : \A lh \in BOOLEAN : \A il \in BOOLEAN : \A ir \in BOOLEAN :
          CsgOp_intersection_allowed(op, lh, il, ir) = (<<lh, il, ir>> \in RulesTable[op])
    /\ f_dec.valid =>
          f_dec.allowed = (<<f_dec.left_hit, f_dec.inl, f_dec.inr>> \in RulesTable[f_dec.op])

\* Difference evaluated on a right hit while inside both operands: allowed
C3_Witness ==
    /\ f_dec.valid /\ f_dec.op = "Difference"
    /\ ~f_dec.left_hit /\ f_dec.inl /\ f_dec.inr /\ f_dec.allowed


Orders(n) == {p \in [1..n -> 1..n] : \A a, b \in 1..n : a # b => p[a] # p[b]}
Permuted(xs, p) == [j \in 1..Len(xs) |-> xs[p[j]]]

\* C5: Intersection::hit returns an element of the sequence whose t is the
\* smallest among those with t >= 0 (t = 0 included); it returns none iff no
\* element has t >= 0 (empty sequence, or all negative); and for every
\* reordering of the sequence the result is present or absent alike, with the
\* same t.
C5_HitIsSmallestNonNegative ==
    h_pc \notin {"idle", "start"} =>
        /\ h_hit.some <=> (\E j \in 1..Len(h_xs) : h_xs[j].t >= 0)
        /\ h_hit.some =>
              /\ \E j \in 1..Len(h_xs) : h_xs[j] = h_hit.val
              /\ h_hit.val.t >= 0
              /\ \A j \in 1..Len(h_xs) : h_xs[j].t >= 0 => h_hit.val.t <= h_xs[j].t
        /\ \A p \in Orders(Len(h_xs)) :
              LET r == Intersection_hit(Permuted(h_xs, p))
              IN  /\ r.some = h_hit.some
                  /\ r.some => r.val.t = h_hit.val.t

\* an unsorted sequence with a negative t, whose hit is the element at t = 0
C5_Witness ==
    /\ h_pc = "hit"
    /\ Len(h_xs) = 3
    /\ ~IsSortedByT(h_xs)
    /\ \E j \in 1..Len(h_xs) : h_xs[j].t < 0
    /\ h_hit.some
    /\ h_hit.val.t = 0

\* the container list of the claim after the first k intersections: each
\* intersection removes its leaf (the top-level object that produced it) if it
\* is listed, else appends it
RECURSIVE LeavesEntered(_, _)
LeavesEntered(xs, k) ==
    IF k = 0 THEN <<>>
    ELSE LET before == LeavesEntered(xs, k - 1)
             at == {j \in 1..Len(before) : before[j].src = xs[k].src}
         IN  IF at # {}
             THEN LET j == CHOOSE j \in at : TRUE
                  IN  SubSeq(before, 1, j - 1) \o SubSeq(before, j + 1, Len(before))
             ELSE Append(before, xs[k])

IndexOfLast(list) ==
    IF Len(list) = 0 THEN One ELSE list[Len(list)].object.material.refractive_index

\* C6: compute_refractive_indices returns (n1, n2) with n1 the refractive
\* index of the last container after the intersections before the queried hit
\* have been walked, and n2 that after the queried hit has been walked too (1.0
\* for an empty list), the walk toggling the leaf of each intersection.
C6_ContainerWalk ==
    h_pc = "done" =>
        h_ret = << IndexOfLast(LeavesEntered(h_xs, h_self - 1)),
                   IndexOfLast(LeavesEntered(h_xs, h_self)) >>

\* C6, the example: A(1.5), B(2.0), C(2.5) crossed in the order A,B,C,B,C,A
ExamplePairs ==
    << <<Num(1), GlassA.material.refractive_index>>,
       <<GlassA.material.refractive_index, GlassB.material.refractive_index>>,
       <<GlassB.material.refractive_index, GlassC.material.refractive_index>>,
       <<GlassC.material.refractive_index, GlassC.material.refractive_index>>,
       <<GlassC.material.refractive_index, GlassA.material.refractive_index>>,
       <<GlassA.material.refractive_index, Num(1)>> >>

C6_ExamplePairs ==
    (h_pc = "done" /\ Len(h_xs) = Len(ExamplePairs)) =>
        /\ [j \in 1..Len(h_xs) |-> h_xs[j].src] = << <<1>>, <<2>>, <<3>>, <<2>>, <<3>>, <<1>> >>
        /\ h_ret = ExamplePairs[h_self]

\* C6 on the sequences where no intersection before the queried hit equals it
\* (same object, t within the tolerance of approx_equal)
C6_ContainerWalkOfDistinctHits ==
    (h_pc = "done" /\ \A j \in 1..(h_self - 1) : ~Intersection_eq(h_xs[j], h_xs[h_self]))
        => h_ret = << IndexOfLast(LeavesEntered(h_xs, h_self - 1)),
                      IndexOfLast(LeavesEntered(h_xs, h_self)) >>


\* a nested activation has just been pushed
Pushed == Len(s_stack') = Len(s_stack) + 1 /\ Len(s_stack) > 0

\* C7: every nested color_at_with_depth activation gets its caller's
\* remaining_depth minus one; from World::color_at the remaining depth of every
\* activation is in 0..8 and at most 8 nested activations are open above the
\* outermost one; an activation at depth 0 gets black for its reflection; and
\* the call returns a colour, also between two facing mirrors.
C7_DepthBudgetTerminates ==
    /\ [][Pushed => s_stack'[Len(s_stack')].remaining_depth = Top.remaining_depth - 1]_vars
    /\ [](s_root = "color_at" =>
            /\ Len(s_stack) <= DEFAULT_ALLOWED_DEPTH + 1
            /\ \A k \in 1..Len(s_stack) :
                  /\ s_stack[k].remaining_depth \in 0..DEFAULT_ALLOWED_DEPTH
                  /\ s_stack[k].remaining_depth = DEFAULT_ALLOWED_DEPTH - (k - 1)
                  /\ (s_stack[k].remaining_depth = 0 /\ s_stack[k].pc = "refracted_color")
                        => s_stack[k].reflected = Color_black)
    /\ [](s_pc # "panicked")
    /\ (s_pc = "running" /\ s_root = "color_at") ~> (s_pc = "done")

\* between the two mirrors the budget is used up: eight nested activations,
\* the innermost at depth 0 on a fully reflective surface, past reflected_color
C7_Witness ==
    /\ s_root = "color_at"
    /\ world = MirrorWorld
    /\ Len(s_stack) = DEFAULT_ALLOWED_DEPTH + 1
    /\ Top.remaining_depth = 0
    /\ Top.pc = "refracted_color"
    /\ Top.comps.object.material.reflective = One

\* C8: an activation with remaining_depth 0 never has a nested activation; its
\* reflected and refracted colours are black; and when it has a hit it returns
\* the surface colour summed over the lights, whatever the material.
C8_DepthZeroShadesSurfaceOnly ==
    /\ \A k \in 1..Len(s_stack) :
          s_stack[k].remaining_depth = 0 =>
              /\ k = Len(s_stack)
              /\ s_stack[k].calls = 0
              /\ s_stack[k].pc \in {"color_at", "reflected_color", "refracted_color", "combine"}
              /\ s_stack[k].reflected = Color_black
              /\ s_stack[k].refracted = Color_black
    /\ (s_last.valid /\ s_last.remaining_depth = 0) =>
          /\ s_last.calls = 0
          /\ s_last.colour = (IF s_last.hit THEN s_last.surface ELSE Color_black)

\* a depth-0 activation has returned a lit colour from a surface that both
\* reflects and transmits
C8_Witness ==
    /\ s_last.valid
    /\ s_last.remaining_depth = 0
    /\ s_last.hit
    /\ s_last.material.reflective > 0
    /\ s_last.material.transparency > 0
    /\ s_last.colour # Color_black
    /\ s_last.colour = s_last.surface

(***************************************************************************)
(* Statements about World::intersect, is_shadowed and prepare_computations *)
(***************************************************************************)
\* object.intersect(ray) of every top-level object, in order
PerObject == [k \in 1..Len(world.objects) |-> Object_intersect(world.objects[k], ray)]

\* the places (object k, position j) of the intersections the objects return
Places(per) == UNION {{<<k, j>> : j \in 1..Len(per[k].val)} : k \in 1..Len(per)}

PlaceHit(per, place) == [per[place[1]].val[place[2]] EXCEPT !.src = <<place[1]>> \o @]

\* C11: when every top-level Object::intersect returns, World::intersect returns
\* exactly their intersections, each as often as the objects return it, and
\* for every adjacent pair xs[i].t <= xs[i+1].t.
C11_WorldIntersectIsSortedUnion ==
    (last = "world_intersect" /\ \A k \in 1..Len(world.objects) : PerObject[k].ok) =>
        /\ out.ok
        /\ \A j \in 1..(Len(out.val) - 1) : FLe(out.val[j].t, out.val[j + 1].t)
        /\ Len(out.val) = Cardinality(Places(PerObject))
        /\ \A j \in 1..Len(out.val) :
              Cardinality({i \in 1..Len(out.val) : out.val[i] = out.val[j]})
                  = Cardinality({pl \in Places(PerObject) :
                                    PlaceHit(PerObject, pl) = out.val[j]})

\* three or more intersections of two or more objects, which chained in the
\* order of the objects are not in ascending order
C11_Witness ==
    /\ last = "world_intersect"
    /\ out.ok
    /\ Len(out.val) >= 3
    /\ \E i, j \in 1..Len(out.val) : out.val[i].src # out.val[j].src
    /\ \E k \in 1..(Len(world.objects) - 1) :
          /\ PerObject[k].ok /\ PerObject[k + 1].ok
          /\ \E i \in 1..Len(PerObject[k].val), j \in 1..Len(PerObject[k + 1].val) :
                FGt(PerObject[k].val[i].t, PerObject[k + 1].val[j].t)


(***************************************************************************)
(* Statements about Object::intersect                                      *)
(***************************************************************************)
Singular(m) == approx_equal(Matrix4_determinant(m), 0)

\* the bounding-box test Object::intersect starts with, for the node and ray
\* of the state
BoxTest == IntersectsBox(obj, ray, TRUE)

\* C12 as stated: for every ray, Object::intersect on a node whose transform is
\* singular fails.
C12_SingularTransformAlwaysFails ==
    (last = "intersect" /\ Singular(obj.transform)) => ~out.ok

\* C12 amended: on a node whose transform is singular Object::intersect returns
\* no intersection: it fails for every ray that is not found to miss the
\* node's bounding box, and returns the empty sequence for a ray that misses it.
C12_SingularTransformFailsUnlessBoxMissed ==
    (last = "intersect" /\ Singular(obj.transform)) =>
        IF BoxTest.ok /\ ~BoxTest.val THEN out = Ok(<<>>) ELSE ~out.ok

\* a ray that meets the bounding box of a node with a singular transform: the
\* inversion is reached and the call has failed
C12_Witness ==
    /\ last = "intersect"
    /\ Singular(obj.transform)
    /\ BoxTest.ok /\ BoxTest.val
    /\ ~out.ok


(***************************************************************************)
(* Statements about World::is_shadowed                                     *)
(***************************************************************************)
\* the ray from the point of the call towards its light, and what it meets
ShadowRay == Ray_new(arg.point, Tuple_normalize(Tuple_sub(arg.light.position, arg.point)))

ShadowDistance == Tuple_magnitude(Tuple_sub(arg.light.position, arg.point))

\* is the k-th of xs a nearest intersection among those with t >= 0
NearestNonNegative(xs, k) ==
    /\ FGe(xs[k].t, 0)
    /\ \A j \in 1..Len(xs) : FGe(xs[j].t, 0) => FLe(xs[k].t, xs[j].t)

\* C13: World::is_shadowed(point, light) is true iff the ray from point towards
\* the light has a nearest hit with t >= 0 and that t is strictly less than the
\* distance from point to the light; so it is false when nothing is hit and
\* when every object lies behind the light or behind the point.
C13_ShadowedIffNearestHitBeforeLight ==
    last = "is_shadowed" =>
        \A xs \in {World_intersect(world.objects, ShadowRay)} :
            xs.ok =>
                /\ out.ok
                /\ out.val = (\E k \in 1..Len(xs.val) :
                                /\ NearestNonNegative(xs.val, k)
                                /\ FLt(xs.val[k].t, ShadowDistance))

\* a point in shadow: something stands between it and the light
C13_Witness ==
    /\ last = "is_shadowed"
    /\ out = Ok(TRUE)
    /\ \E xs \in {World_intersect(world.objects, ShadowRay)} :
          xs.ok /\ \E k \in 1..Len(xs.val) : FGe(xs.val[k].t, 0)

\* the three ways of C13 to be lit: nothing on the ray, objects only behind
\* the light, objects only behind the point
C13_LitNothingHit ==
    /\ last = "is_shadowed" /\ out = Ok(FALSE)
    /\ World_intersect(world.objects, ShadowRay) = Ok(<<>>)

C13_LitBehindLight ==
    /\ last = "is_shadowed" /\ out = Ok(FALSE)
    /\ \E xs \in {World_intersect(world.objects, ShadowRay)} :
          /\ xs.ok /\ Len(xs.val) > 0
          /\ \A k \in 1..Len(xs.val) : FGe(xs.val[k].t, ShadowDistance)

C13_LitBehindPoint ==
    /\ last = "is_shadowed" /\ out = Ok(FALSE)
    /\ \E xs \in {World_intersect(world.objects, ShadowRay)} :
          /\ xs.ok /\ Len(xs.val) > 0
          /\ \A k \in 1..Len(xs.val) : FLt(xs.val[k].t, 0)


(***************************************************************************)
(* Statements about WavefrontObj::from_file_contents                       *)
(***************************************************************************)
IsLine(line, node_type) == line.split /\ line.node_type = node_type

\* the points of the "v" lines before line j of the file, in file order
VerticesSeen(read, j) ==
    LET lines == SelectSeq(SubSeq(read, 1, j - 1), LAMBDA line : IsLine(line, "v"))
    IN  [n \in 1..Len(lines) |->
            Tuple_point(lines[n].rest[1], lines[n].rest[2], lines[n].rest[3])]

NormalsSeen(read, j) ==
    Len(SelectSeq(SubSeq(read, 1, j - 1), LAMBDA line : IsLine(line, "vn")))

\* the name on the most recent "g" line before line j, "default" without one
GroupAt(read, j) ==
    LET gs == {i \in 1..(j - 1) : IsLine(read[i], "g")}
    IN  IF gs = {} THEN "default"
        ELSE read[CHOOSE i \in gs : \A i2 \in gs : i2 <= i].rest

\* the 1-based vertex number written m-th on a face line
Ref(line, m) == line.rest[m][1].val

\* every reference of face line j is to a vertex, and to a normal, seen before
Resolves(read, j) ==
    \A m \in 1..Len(read[j].rest) :
        /\ Ref(read[j], m) \in 1..Len(VerticesSeen(read, j))
        /\ (Len(read[j].rest[m]) >= 3 /\ read[j].rest[m][3].some)
              => read[j].rest[m][3].val \in 1..NormalsSeen(read, j)

\* the corners (v1, v_i, v_{i+1}), i = 2..k-1, of face line j
Fan(read, j) ==
    LET v == VerticesSeen(read, j)
        line == read[j]
    IN  [i \in 1..(Len(line.rest) - 2) |->
            <<v[Ref(line, 1)], v[Ref(line, i + 1)], v[Ref(line, i + 2)]>>]

\* the fans of the face lines from line j on that stand under the name
RECURSIVE FansOf(_, _, _)
FansOf(read, name, j) ==
    IF j > Len(read) THEN <<>>
    ELSE (IF IsLine(read[j], "f") /\ GroupAt(read, j) = name THEN Fan(read, j) ELSE <<>>)
         \o FansOf(read, name, j + 1)

Corners(triangles) ==
    [n \in 1..Len(triangles) |-> <<triangles[n].p1, triangles[n].p2, triangles[n].p3>>]

GroupNames == {"default"} \cup {line.rest : line \in GroupLines}

TrianglesOf(name) == IF name \in DOMAIN o_groups THEN o_groups[name] ELSE <<>>

\* C15: each face line with k >= 3 vertices v1..vk appends exactly the k-2
\* triangles (v1, v_i, v_{i+1}), i = 2..k-1, in that order, to the group named by
\* the most recent "g" line before it, or to "default" without one, its
\* vertices being 1-based indices into the "v" lines seen so far.  So every
\* group holds the fans of its face lines in file order and nothing else, and
\* reading fails only at a face line with a reference that does not resolve.
C15_FacesAreFanTriangulatedIntoCurrentGroup ==
    /\ o_st = "panic" =>
          /\ Len(o_read) > 0
          /\ IsLine(o_read[Len(o_read)], "f")
          /\ ~Resolves(o_read, Len(o_read))
    /\ o_st \in {"reading", "returned"} =>
          /\ DOMAIN o_groups \subseteq GroupNames
          /\ \A name \in GroupNames : Corners(TrianglesOf(name)) = FansOf(o_read, name, 1)

\* a quadrilateral read under the second of two group names: two triangles
C15_Witness ==
    /\ o_st = "returned"
    /\ Len(o_read) > 0
    /\ IsLine(o_read[Len(o_read)], "f")
    /\ Len(o_read[Len(o_read)].rest) = 4
    /\ \E i, j \in 1..Len(o_read) :
          i < j /\ IsLine(o_read[i], "g") /\ IsLine(o_read[j], "g")
                /\ o_read[i].rest # o_read[j].rest
    /\ Len(TrianglesOf(o_current_group)) = 2


(***************************************************************************)
(* Statements about the classification of hits in Csg::local_intersect     *)
(***************************************************************************)
\* C16: each merged hit is classified left_hit = true iff the leaf that
\* produced it lies in the left operand subtree, whatever the left operand is: a
\* leaf, a Group or a nested CSG node, with or without a transform of its own.
C16_LeftHitIffLeafInLeftSubtree ==
    (f_dec.valid /\ f_k > 1) =>
        f_dec.left_hit = (Head(f_xs[f_k - 1].src) = 1)

\* the same for left operands whose hits carry the leaf's own transform: it
\* holds there unless the right operand has an equal leaf
C16_LeftHitOfUntransformedOperands ==
    (/\ f_dec.valid /\ f_k > 1
     /\ f_csg.left.transform = Matrix4_identity
     /\ f_csg.left # f_csg.right) =>
        f_dec.left_hit = (Head(f_xs[f_k - 1].src) = 1)


(***************************************************************************)
(* Statements about the cube slab test                                     *)
(***************************************************************************)
UntransformedCube ==
    obj.node = "Shape" /\ obj.shape.kind = "Cube" /\ obj.transform = Matrix4_identity

\* C17: the cube slab test never fails: for every ray, also one with a zero
\* direction component on an axis and its origin on a face plane of that axis,
\* it completes and returns either nothing or [t_min, t_max] with
\* t_min <= t_max.  Stated of Object::intersect on a cube in its own space,
\* which runs the slab test on the ray twice, for the bounding box and for
\* the cube.
C17_CubeSlabTestNeverFails ==
    (last = "intersect" /\ UntransformedCube) =>
        /\ out.ok
        /\ \/ out.val = <<>>
           \/ Len(out.val) = 2 /\ FLe(out.val[1].t, out.val[2].t)

\* the same for rays that do not start on a face plane they run along
OnFacePlaneOfParallelAxis(r) ==
    \/ FLt(FAbs(r.direction.x), EPSILON) /\ FAbs(r.origin.x) = One
    \/ FLt(FAbs(r.direction.y), EPSILON) /\ FAbs(r.origin.y) = One
    \/ FLt(FAbs(r.direction.z), EPSILON) /\ FAbs(r.origin.z) = One

C17_CubeSlabTestOffTheFacePlanes ==
    (last = "intersect" /\ UntransformedCube /\ ~OnFacePlaneOfParallelAxis(ray)) =>
        /\ out.ok
        /\ \/ out.val = <<>>
           \/ Len(out.val) = 2 /\ FLe(out.val[1].t, out.val[2].t)


(***************************************************************************)
(* Statements about the bounding-box test of Object::intersect             *)
(***************************************************************************)
\* C18: when the ray misses the node's bounding box, Object::intersect returns
\* the empty sequence before anything else happens: the transform is not
\* inverted, the ray is not transformed and no local intersection is invoked,
\* so nothing that those steps could do to the call, such as the failure of
\* inverting a singular transform, happens.
C18_BoxMissReturnsEmptyAtOnce ==
    (last = "intersect" /\ BoxTest.ok /\ ~BoxTest.val) => out = Ok(<<>>)

\* a ray past the bounding box of a node whose transform has no inverse: the
\* call has returned, so the inversion was never attempted
C18_Witness ==
    /\ last = "intersect"
    /\ BoxTest.ok /\ ~BoxTest.val
    /\ ~Matrix4_inverse(obj.transform).some
    /\ out = Ok(<<>>)


(***************************************************************************)
(* Statements about World::reflected_color and World::refracted_color      *)
(***************************************************************************)
\* the activation that called the one on top of the stack
Caller == s_stack[Len(s_stack) - 1]

\* the innermost activation returns to a caller waiting at pc
ReturnsTo(pc) ==
    /\ Len(s_stack) >= 2
    /\ Len(s_stack') = Len(s_stack) - 1
    /\ Caller.pc = pc

\* the activation on top of the stack, as the step leaves it
TopAfter == s_stack'[Len(s_stack)]

\* C19: World::reflected_color returns black when remaining_depth <= 0 or when
\* the hit material's reflective coefficient is 0; otherwise it calls
\* color_at_with_depth(Ray(over_point, reflect_vector), remaining_depth - 1)
\* and returns that colour scaled by reflective.
C19_ReflectedColor ==
    /\ [][(s_pc = "running" /\ Top.pc = "reflected_color") =>
            IF Top.remaining_depth <= 0 \/ Top.comps.object.material.reflective = 0
            THEN /\ Len(s_stack') = Len(s_stack)
                 /\ TopAfter.reflected = Color_black
                 /\ TopAfter.pc = "refracted_color"
            ELSE /\ Len(s_stack') = Len(s_stack) + 1
                 /\ TopAfter.pc = "await_reflected"
                 /\ s_stack'[Len(s_stack')].pc = "color_at"
                 /\ s_stack'[Len(s_stack')].ray =
                        Ray_new(Top.comps.over_point, Top.comps.reflect_vector)
                 /\ s_stack'[Len(s_stack')].remaining_depth = Top.remaining_depth - 1]_vars
    /\ [][ReturnsTo("await_reflected") =>
            /\ s_stack'[Len(s_stack')].reflected =
                    Color_mul(s_last'.colour, Caller.comps.object.material.reflective)
            /\ s_stack'[Len(s_stack')].pc = "refracted_color"]_vars

\* a half-reflective surface has got the colour of its reflection ray back,
\* scaled, and it is not black
C19_Witness ==
    /\ s_pc = "running"
    /\ Top.pc = "refracted_color"
    /\ Top.calls = 1
    /\ Top.comps.object.material.reflective = One \div 2
    /\ Top.reflected # Color_black

\* reflected_color has returned black for a reflective surface at a negative
\* depth
C19_WitnessBelowZero ==
    /\ s_pc = "running"
    /\ Top.pc = "refracted_color"
    /\ Top.remaining_depth < 0
    /\ Top.comps.object.material.reflective > 0
    /\ Top.calls = 0


\* the step of refracted_color for a budget that counts as exhausted when
\* Exhausted(remaining_depth) holds
RefractedColorStep(Exhausted(_)) ==
    (s_pc = "running" /\ Top.pc = "refracted_color") =>
        IF \/ Top.comps.object.material.transparency = 0
           \/ Exhausted(Top.remaining_depth)
           \/ FGt(FMul(FPowi(FDiv(Top.comps.n1, Top.comps.n2), 2),
                       FSub(One, FPowi(Tuple_dot(Top.comps.eye_vector,
                                                 Top.comps.normal_vector), 2))), One)
        THEN /\ Len(s_stack') = Len(s_stack)
             /\ TopAfter.refracted = Color_black
             /\ TopAfter.pc = "combine"
        ELSE /\ Len(s_stack') = Len(s_stack) + 1
             /\ TopAfter.pc = "await_refracted"
             /\ s_stack'[Len(s_stack')].pc = "color_at"
             /\ s_stack'[Len(s_stack')].ray.origin = Top.comps.under_point
             /\ s_stack'[Len(s_stack')].remaining_depth = Top.remaining_depth - 1

RefractedColorReturn ==
    ReturnsTo("await_refracted") =>
        /\ s_stack'[Len(s_stack')].refracted =
                Color_mul(s_last'.colour, Caller.comps.object.material.transparency)
        /\ s_stack'[Len(s_stack')].pc = "combine"

\* C20: World::refracted_color returns black when the hit material's
\* transparency is 0, when the depth budget is exhausted (nothing is left of
\* it: remaining_depth <= 0, as in reflected_color), or under total internal
\* reflection; otherwise it recurses from under_point with remaining_depth - 1
\* and scales the result by transparency.
C20_RefractedColor ==
    /\ [][RefractedColorStep(LAMBDA remaining_depth : remaining_depth <= 0)]_vars
    /\ [][RefractedColorReturn]_vars

\* what the code does: only the depth 0 is taken for an exhausted budget
C20_RefractedColorExhaustedAtZeroOnly ==
    /\ [][RefractedColorStep(LAMBDA remaining_depth : remaining_depth = 0)]_vars
    /\ [][RefractedColorReturn]_vars


(***************************************************************************)
(* Statements about World::shade_hit                                       *)
(***************************************************************************)
\* lighting() of the first n lights of the world at the hit, summed from black
RECURSIVE LightsSum(_, _)
LightsSum(comps, n) ==
    IF n = 0 THEN Color_black
    ELSE Color_add(LightsSum(comps, n - 1),
                   material_lighting(comps.object.material, world.lights[n],
                                     comps.over_point, comps.eye_vector, comps.normal_vector,
                                     World_is_shadowed(world, comps.over_point,
                                                       world.lights[n]).val))

\* C21: shade_hit returns surface + reflected * R + refracted * (1 - R), with
\* R = schlick(comps), exactly when the hit material has both reflective > 0
\* and transparency > 0, and surface + reflected + refracted in every other
\* case; surface is the sum of lighting() over all lights, black without one.
C21_ShadeHitBlendsOnlyReflectiveTransparent ==
    [][(s_pc = "running" /\ Top.pc = "combine") =>
        /\ Top.surface = LightsSum(Top.comps, Len(world.lights))
        /\ Len(world.lights) = 0 => Top.surface = Color_black
        /\ s_last'.colour =
              IF /\ FGt(Top.comps.object.material.reflective, 0)
                 /\ FGt(Top.comps.object.material.transparency, 0)
              THEN Color_add(Color_add(Top.surface,
                                       Color_mul(Top.reflected,
                                                 ComputedIntersection_schlick(Top.comps))),
                             Color_mul(Top.refracted,
                                       FSub(One, ComputedIntersection_schlick(Top.comps))))
              ELSE Color_add(Color_add(Top.surface, Top.reflected), Top.refracted)]_vars

\* shade_hit has returned for a surface that both reflects and transmits,
\* after both nested calls, and the weights made a difference
C21_Witness ==
    /\ s_last.valid
    /\ s_last.hit
    /\ s_last.calls = 2
    /\ FGt(s_last.material.reflective, 0)
    /\ FGt(s_last.material.transparency, 0)
    /\ s_last.colour # s_last.surface

\* shade_hit has returned in a world without lights
C21_WitnessNoLights ==
    /\ s_last.valid
    /\ s_last.hit
    /\ world.lights = <<>>
    /\ s_last.surface = Color_black


(***************************************************************************)
(* Statements about Intersection::prepare_computations                     *)
(***************************************************************************)
\* the hit prepare_computations was called on, its point and the normal of
\* its object there
PreparedHit == out.val[w_q]

PreparedPoint == Ray_position(ray, PreparedHit.t)

RawNormal == SimpleObject_normal_at(PreparedHit.object, PreparedHit, PreparedPoint).val

Prepared == last = "prepare_computations" /\ w_comps.some /\ w_comps.val.ok

\* C22: prepare_computations marks the hit as inside and negates the normal
\* iff raw_normal . eye_vector < 0; so the returned normal_vector satisfies
\* normal_vector . eye_vector >= 0, over_point is off the surface towards the
\* eye and under_point away from it.
C22_NormalFacesTheEye ==
    Prepared =>
        \A comps \in {w_comps.val.val}, eye_vector \in {Tuple_neg(ray.direction)} :
            /\ comps.inside = FLt(Tuple_dot(RawNormal, eye_vector), 0)
            /\ comps.normal_vector = IF comps.inside THEN Tuple_neg(RawNormal) ELSE RawNormal
            /\ FGe(Tuple_dot(comps.normal_vector, eye_vector), 0)
            /\ FGe(Tuple_dot(Tuple_sub(comps.over_point, PreparedPoint), eye_vector), 0)
            /\ FLe(Tuple_dot(Tuple_sub(comps.under_point, PreparedPoint), eye_vector), 0)

\* a hit from the inside: the normal was negated, and the two points lie
\* strictly on either side
C22_Witness ==
    /\ Prepared
    /\ w_comps.val.val.inside
    /\ w_comps.val.val.normal_vector = Tuple_neg(RawNormal)
    /\ FGt(Tuple_dot(Tuple_sub(w_comps.val.val.over_point, PreparedPoint),
                     Tuple_neg(ray.direction)), 0)
    /\ FLt(Tuple_dot(Tuple_sub(w_comps.val.val.under_point, PreparedPoint),
                     Tuple_neg(ray.direction)), 0)


(***************************************************************************)
(* Statements about the (u, v) of hit records                              *)
(***************************************************************************)
HasUV(i) == i.uv # <<>>

\* C23: every Intersection produced by Object::intersect carries (u, v) iff
\* its leaf primitive is a Triangle; so the normal of a triangle hit obtained
\* from intersect is computed without failing for lack of (u, v).
C23_UVIffTriangle ==
    (last = "intersect" /\ out.ok) =>
        \A k \in 1..Len(out.val) :
            \A i \in {out.val[k]} :
                /\ NodeAt(obj, i.src).shape.kind = i.object.shape.kind
                /\ HasUV(i) <=> i.object.shape.kind = "Triangle"
                /\ i.object.shape.kind = "Triangle" =>
                      /\ Len(i.uv) = 2
                      /\ SimpleObject_normal_at(i.object, i, Ray_position(ray, i.t)).ok

\* a hit of a triangle below a group, with its (u, v), next to a hit of a
\* sphere without
C23_Witness ==
    /\ last = "intersect" /\ out.ok
    /\ \E k \in 1..Len(out.val) :
          /\ out.val[k].object.shape.kind = "Triangle"
          /\ HasUV(out.val[k])
          /\ Len(out.val[k].src) > 0
    /\ \E k \in 1..Len(out.val) :
          out.val[k].object.shape.kind = "Sphere" /\ ~HasUV(out.val[k])


(***************************************************************************)
(* Statements about ties in Intersection::hit                              *)
(***************************************************************************)
\* the positions of h_xs that hold the smallest non-negative t
Nearest ==
    {j \in 1..Len(h_xs) :
        /\ FGe(h_xs[j].t, 0)
        /\ \A k \in 1..Len(h_xs) : FGe(h_xs[k].t, 0) => FLe(h_xs[j].t, h_xs[k].t)}

\* C24: when several intersections share the smallest non-negative t,
\* Intersection::hit returns the one that appears first in the sequence it is
\* given.
C24_HitReturnsFirstOfTies ==
    (h_pc # "start" /\ h_pc # "idle" /\ Nearest # {}) =>
        /\ h_hit.some
        /\ h_hit.val = h_xs[CHOOSE j \in Nearest : \A k \in Nearest : j <= k]

\* two different objects are hit at the same smallest non-negative t, and
\* the hit is the earlier of the two records
C24_Witness ==
    /\ h_pc = "hit"
    /\ \E j, k \in Nearest : j < k /\ h_xs[j] # h_xs[k] /\ h_hit.val = h_xs[j]


(***************************************************************************)
(* Statements about CSG operands that are equal leaves                     *)
(***************************************************************************)
EqualLeafOperands ==
    /\ IsLeaf(f_csg.left) /\ IsLeaf(f_csg.right)
    /\ SimpleObject_eq(SimpleObject_from_object(f_csg.left).val,
                       SimpleObject_from_object(f_csg.right).val)

\* C25: in a CSG node whose operands are distinct leaves with equal shape,
\* transform and material, the hits produced by the right operand are
\* classified as right hits (left_hit = false) by filter_intersections.
C25_RightHitsOfEqualLeavesAreRightHits ==
    (/\ f_dec.valid /\ f_k > 1
     /\ EqualLeafOperands
     /\ Head(f_xs[f_k - 1].src) = 2) => ~f_dec.left_hit


(***************************************************************************)
(* Statements about groups without children                                *)
(***************************************************************************)
\* C26: intersecting a ray with a Group that has no children returns an empty
\* intersection sequence rather than failing.
C26_EmptyGroupIntersectsToNothing ==
    (last = "intersect" /\ IsGroup(obj) /\ obj.children = <<>>) => out = Ok(<<>>)


(***************************************************************************)
(* Statements about Camera::render                                         *)
(***************************************************************************)
\* the workers that rendered row y
RenderedBy(y) ==
    {i \in 1..Len(r_handles) : \E k \in 1..Len(r_handles[i].rows) : r_handles[i].rows[k] = y}

\* how many times the workers rendered row y
Renderings(y) ==
    Cardinality({<<i, k>> \in (1..Len(r_handles)) \X (1..MaxVSize + 1) :
                    k <= Len(r_handles[i].rows) /\ r_handles[i].rows[k] = y})

\* C27: the canvas render returns holds exactly hsize * vsize pixels, and each
\* row 0..vsize-1 was rendered by exactly one of the 8 workers, whatever
\* vsize is.
C27_EveryRowIsRenderedOnce ==
    r_pc = "returned" =>
        /\ Len(r_canvas.val.pixels) = r_camera.hsize * r_camera.vsize
        /\ \A y \in 0..(r_camera.vsize - 1) : Renderings(y) = 1


\* what color_at gives the ray of pixel (x, y)
PixelColor(x, y) == World_color_at(Camera_ray_for_pixel(r_camera, x, y).val)

\* the same colour, its ray taken from RaysOf
PushedColor(x, y) == World_color_at(RayOf(r_camera, x, y).val)

\* the pixels a worker holds are those of its rows, from y_low on, row by row
OwnBuffer(h) ==
    \A k \in 1..Len(h.pixels) :
        h.pixels[k] = PushedColor((k - 1) % r_camera.hsize,
                                 y_low(r_camera, h.thread_index) + (k - 1) \div r_camera.hsize)

\* C28: whatever order the workers run and finish in, each worker's buffer holds
\* the pixels of its own rows only, and in the canvas render returns the pixel
\* at index x + y * hsize is color_at(ray_for_pixel(x, y)) for every rendered
\* row y.
C28_PixelsAreStoredInRowOrder ==
    /\ \A i \in 1..Len(r_handles) : OwnBuffer(r_handles[i])
    /\ r_pc = "returned" =>
          \A y \in 0..(r_camera.vsize - 1) : \A x \in 0..(r_camera.hsize - 1) :
              RenderedBy(y) # {} =>
                  Canvas_pixel_at(r_canvas.val, x, y) = Ok(PixelColor(x, y))

\* render returned two rows of two pixels from each worker, and a worker had
\* finished before one spawned earlier
C28_Witness ==
    /\ r_pc = "returned"
    /\ r_overtaken
    /\ r_camera.hsize = 2
    /\ rows_per_thread(r_camera) = 2
    /\ Len(r_canvas.val.pixels) = 32
    /\ Canvas_pixel_at(r_canvas.val, 1, 15) = Ok(PixelColor(1, 15))
    /\ PixelColor(1, 15) # PixelColor(1, 14)
    /\ PixelColor(1, 15) # PixelColor(0, 15)


(***************************************************************************)
(* Statements about the depths reflected_color and refracted_color take    *)
(* for exhausted                                                           *)
(***************************************************************************)
\* C29: reflected_color and refracted_color treat the same depths as
\* exhausted: an activation of color_at_with_depth with remaining_depth <= 0,
\* negative values included, makes no nested call, neither for the reflected
\* nor for the refracted colour.
C29_NoNestedCallOnceExhausted ==
    \A k \in 1..Len(s_stack) :
        s_stack[k].remaining_depth <= 0 =>
            /\ k = Len(s_stack)
            /\ s_stack[k].calls = 0


(***************************************************************************)
(* Statements about the objects hit records refer to                       *)
(***************************************************************************)
Primitives == {"Sphere", "Plane", "Cube", "Triangle"}

\* the nodes of the tree above the leaf at path, the root included
Ancestors(path) == {NodeAt(obj, SubSeq(path, 1, n)) : n \in 0..(Len(path) - 1)}

\* C30: every hit record Object::intersect returns refers to a primitive, the
\* leaf of the tree that was hit, and never to a CSG node, however Groups and
\* CSG nodes are nested; so the Shape::Csg arms marked unreachable!() are not
\* met when the hit's shape is used.
C30_HitsReferToPrimitives ==
    (last = "intersect" /\ out.ok) =>
        \A k \in 1..Len(out.val) :
            /\ out.val[k].object.shape.kind \in Primitives
            /\ IsLeaf(NodeAt(obj, out.val[k].src))
            /\ out.val[k].object.shape = NodeAt(obj, out.val[k].src).shape
            /\ out.val[k].object.material = NodeAt(obj, out.val[k].src).material

\* a ray has hit a primitive that lies two levels down, below a CSG node
C30_Witness ==
    /\ last = "intersect"
    /\ out.ok
    /\ \E k \in 1..Len(out.val) :
          /\ Len(out.val[k].src) >= 2
          /\ \E a \in Ancestors(out.val[k].src) : IsCsg(a)
          /\ out.val[k].object.shape.kind \in Primitives


\* a ray has hit a primitive inside a Group or a CSG node that is itself an
\* operand of a CSG node
C30_WitnessBelowOperand ==
    /\ last = "intersect"
    /\ out.ok
    /\ IsCsg(obj)
    /\ \E k \in 1..Len(out.val) : Len(out.val[k].src) >= 2


====
